---- MODULE Spec2Model ----
(***************************************************************************)
(* Model of soccer_diagrams/table_fixer.py: the box-drawing table          *)
(* realignment (fix_table_alignment, _fix_data_row) and the line wrapper   *)
(* (wrap_long_lines).                                                      *)
(*                                                                         *)
(* A line is a sequence of one-character tokens, a text is a sequence of   *)
(* lines (text.split("\n")).  Box-drawing glyphs are written as named      *)
(* tokens:                                                                 *)
(*   "v"  U+2502 light vertical      "V"  U+2503 heavy vertical            *)
(*   "cTL" U+250C  "cTR" U+2510  "rTL" U+256D  "rTR" U+256E  (top corners) *)
(*   "cBL" U+2514  "cBR" U+2518  "rBR" U+256F  "rBL" U+2570  (bottom)      *)
(*   "tT" U+252C  "tB" U+2534  "tL" U+251C  "tR" U+2524  (tees)            *)
(*   "x"  U+253C cross                                                     *)
(*   "h" U+2500  "H" U+2501  "h3" U+2504  "h4" U+2508  "h2" U+254C         *)
(*   " " space, "a" "b" ordinary letters, "-" hyphen, "1" digit, "." dot   *)
(* Python offsets are 0-based; TLA+ sequences are 1-based, so the glyph at *)
(* Python offset p of a line l is l[p + 1].                                *)
(***************************************************************************)
EXTENDS Integers, Sequences, FiniteSets, TLC

(***************************************************************************)
(* Glyph classes (table_fixer.py 11-22)                                    *)
(***************************************************************************)
BOX_VERTICAL == {"v", "V"}
BOX_CORNERS_TOP == {"cTL", "cTR", "rTL", "rTR"}
BOX_CORNERS_BOTTOM == {"cBL", "cBR", "rBR", "rBL"}
BOX_TEES_TOP == {"tT"}
BOX_TEES_BOTTOM == {"tB"}
BOX_TEES_LEFT == {"tL"}
BOX_TEES_RIGHT == {"tR"}
BOX_CROSS == {"x"}
BOX_HORIZONTAL == {"h", "H", "h3", "h4", "h2"}

BOX_COL_SEPARATORS_NoCross ==
    BOX_TEES_TOP \cup BOX_TEES_BOTTOM \cup BOX_CORNERS_TOP \cup BOX_CORNERS_BOTTOM

BOX_COL_SEPARATORS ==
    BOX_TEES_TOP \cup BOX_TEES_BOTTOM \cup BOX_CROSS
        \cup BOX_CORNERS_TOP \cup BOX_CORNERS_BOTTOM

\* str.strip() / str.lstrip() whitespace among the tokens of the model
Whitespace == {" "}

(***************************************************************************)
(* Small helpers on sequences                                              *)
(***************************************************************************)
Min(a, b) == IF a <= b THEN a ELSE b
Max(a, b) == IF a >= b THEN a ELSE b
Abs(a) == IF a < 0 THEN -a ELSE a
Range(s) == {s[k] : k \in 1..Len(s)}
Spaces(n) == [k \in 1..n |-> " "]
Word(n) == [k \in 1..n |-> "a"]

\* Python offsets (0-based, ascending) of the tokens of l that are in S
OffsetsOf(l, S) ==
    LET InS(p) == l[p + 1] \in S
    IN  SelectSeq([k \in 1..Len(l) |-> k - 1], InS)

\* line.lstrip(), line.strip()
LStrip(l) ==
    IF \A k \in 1..Len(l) : l[k] \in Whitespace THEN <<>>
    ELSE LET f == CHOOSE k \in 1..Len(l) :
                      /\ l[k] \notin Whitespace
                      /\ \A m \in 1..(k - 1) : l[m] \in Whitespace
         IN  SubSeq(l, f, Len(l))

Strip(l) ==
    LET s == LStrip(l)
    IN  IF s = <<>> THEN <<>>
        ELSE LET e == CHOOSE k \in 1..Len(s) :
                          /\ s[k] \notin Whitespace
                          /\ \A m \in (k + 1)..Len(s) : s[m] \in Whitespace
             IN  SubSeq(s, 1, e)

(***************************************************************************)
(* Table Detector                                                          *)
(***************************************************************************)
\* horizontal_count > len(stripped) * 0.4, in integers: 5 * count > 2 * len
_is_table_border_line(line) ==
    LET stripped == Strip(line)
        horizontal_count == Len(OffsetsOf(stripped, BOX_HORIZONTAL))
    IN  /\ stripped # <<>>
        /\ stripped[1] \in
              (BOX_CORNERS_TOP \cup BOX_CORNERS_BOTTOM \cup BOX_TEES_LEFT)
        /\ 5 * horizontal_count > 2 * Len(stripped)

_is_table_data_line(line) ==
    LET stripped == Strip(line)
    IN  /\ stripped # <<>>
        /\ stripped[1] \in BOX_VERTICAL
        /\ stripped[Len(stripped)] \in BOX_VERTICAL

(***************************************************************************)
(* Column-Grid Extractor                                                   *)
(***************************************************************************)
_get_column_positions(border_line) == OffsetsOf(border_line, BOX_COL_SEPARATORS)

_get_pipe_positions(data_line) == OffsetsOf(data_line, BOX_VERTICAL)

(***************************************************************************)
(* Row Aligner: _fix_data_row                                              *)
(***************************************************************************)
\* the gate of line 82
ColumnCountMismatch_OnlyFewer(actual_positions, expected_positions) ==
    Len(actual_positions) < Len(expected_positions)

ColumnCountMismatch(actual_positions, expected_positions) ==
    Len(actual_positions) # Len(expected_positions)

\* lines 109-113: contiguous " " immediately before Python offset actual_pos
RECURSIVE SpacesBefore_AnyContent(_, _)
SpacesBefore_AnyContent(result_line, check_pos) ==
    IF check_pos >= 0 /\ result_line[check_pos + 1] \notin BOX_VERTICAL
    THEN 1 + SpacesBefore_AnyContent(result_line, check_pos - 1)
    ELSE 0

RECURSIVE SpacesBefore(_, _)
SpacesBefore(result_line, check_pos) ==
    IF check_pos >= 0 /\ result_line[check_pos + 1] = " "
    THEN 1 + SpacesBefore(result_line, check_pos - 1)
    ELSE 0

\* line 115
SpacesToRemove(diff, spaces_before) == Min(Abs(diff), spaces_before)

\* line 123
Shortfall_OneLess(diff, spaces_to_remove) == Abs(diff) - spaces_to_remove - 1

Shortfall(diff, spaces_to_remove) == Abs(diff) - spaces_to_remove

\* line 103: result_line[:actual_pos] + ' ' * diff + result_line[actual_pos:]
InsertSpaces_OneMore(result_line, actual_pos, diff) ==
    SubSeq(result_line, 1, actual_pos) \o Spaces(diff + 1)
        \o SubSeq(result_line, actual_pos + 1, Len(result_line))

InsertSpaces_AfterBar(result_line, actual_pos, diff) ==
    SubSeq(result_line, 1, actual_pos + 1) \o Spaces(diff)
        \o SubSeq(result_line, actual_pos + 2, Len(result_line))

InsertSpaces(result_line, actual_pos, diff) ==
    SubSeq(result_line, 1, actual_pos) \o Spaces(diff)
        \o SubSeq(result_line, actual_pos + 1, Len(result_line))

\* line 118: result_line[:remove_start] + result_line[actual_pos:]
RemoveSpaces_None(result_line, remove_start, actual_pos) == result_line

RemoveSpaces(result_line, remove_start, actual_pos) ==
    SubSeq(result_line, 1, remove_start)
        \o SubSeq(result_line, actual_pos + 1, Len(result_line))

\* one iteration of the loop of lines 92-124 for column i (1-based here,
\* so the reported column number i+1 of the source is i)
FixColumn(st, i, actual_positions, expected_positions) ==
    LET expected_pos == expected_positions[i]
        actual_pos == actual_positions[i] + st.cumulative_shift
        diff == expected_pos - actual_pos
        spaces_before == SpacesBefore(st.result_line, actual_pos - 1)
        spaces_to_remove == SpacesToRemove(diff, spaces_before)
    IN  IF diff = 0 THEN st
        ELSE IF diff > 0 THEN
            [st EXCEPT
                !.result_line = InsertSpaces(st.result_line, actual_pos, diff),
                !.cumulative_shift = st.cumulative_shift + diff,
                !.fixes = Append(st.fixes,
                                 [col |-> i, op |-> "added", n |-> diff])]
        ELSE IF spaces_to_remove > 0 THEN
            [st EXCEPT
                !.result_line = RemoveSpaces(st.result_line,
                                             actual_pos - spaces_to_remove,
                                             actual_pos),
                !.cumulative_shift = st.cumulative_shift - spaces_to_remove,
                !.fixes = Append(st.fixes,
                                 [col |-> i, op |-> "removed",
                                  n |-> spaces_to_remove])]
        ELSE IF spaces_before = 0 THEN
            [st EXCEPT
                !.warnings = Append(st.warnings,
                                    [col |-> i, op |-> "too long",
                                     n |-> Shortfall(diff, spaces_to_remove)])]
        ELSE st

RECURSIVE FixColumns(_, _, _, _)
FixColumns(st, i, actual_positions, expected_positions) ==
    IF i > Len(expected_positions) THEN st
    ELSE FixColumns(FixColumn(st, i, actual_positions, expected_positions),
                    i + 1, actual_positions, expected_positions)

\* history: the loop states of lines 86-124 for one row, steps[1] before
\* column 1 and steps[c + 1] after column c; empty when the row returns at
\* line 80 or line 84
RECURSIVE ColumnSteps(_, _, _, _)
ColumnSteps(steps, c, actual_positions, expected_positions) ==
    IF c > Len(expected_positions) THEN steps
    ELSE ColumnSteps(Append(steps,
                            FixColumn(steps[Len(steps)], c, actual_positions,
                                      expected_positions)),
                     c + 1, actual_positions, expected_positions)

RowSteps(data_line, expected_positions) ==
    LET actual_positions == _get_pipe_positions(data_line)
    IN  IF \/ actual_positions = expected_positions
           \/ ColumnCountMismatch(actual_positions, expected_positions)
        THEN <<>>
        ELSE ColumnSteps(<< [result_line |-> data_line, cumulative_shift |-> 0,
                             fixes |-> <<>>, warnings |-> <<>>] >>,
                         1, actual_positions, expected_positions)

\* returns [line, fixes, warnings] = (fixed_line, list_of_fixes, list_of_warnings)
_fix_data_row_AllOrNothing(data_line, expected_positions) ==
    LET actual_positions == _get_pipe_positions(data_line)
    IN  IF actual_positions = expected_positions
        THEN [line |-> data_line, fixes |-> <<>>, warnings |-> <<>>]
        ELSE IF ColumnCountMismatch(actual_positions, expected_positions)
        THEN [line |-> data_line, fixes |-> <<>>,
              warnings |-> << [col |-> 0, op |-> "column count mismatch",
                               n |-> Len(expected_positions),
                               got |-> Len(actual_positions)] >>]
        ELSE LET st == FixColumns([result_line |-> data_line,
                                   cumulative_shift |-> 0,
                                   fixes |-> <<>>, warnings |-> <<>>],
                                  1, actual_positions, expected_positions)
             IN  IF st.warnings # <<>>
                 THEN [line |-> data_line, fixes |-> <<>>,
                       warnings |-> st.warnings]
                 ELSE [line |-> st.result_line, fixes |-> st.fixes,
                       warnings |-> st.warnings]

_fix_data_row(data_line, expected_positions) ==
    LET actual_positions == _get_pipe_positions(data_line)
    IN  IF actual_positions = expected_positions
        THEN [line |-> data_line, fixes |-> <<>>, warnings |-> <<>>]
        ELSE IF ColumnCountMismatch(actual_positions, expected_positions)
        THEN [line |-> data_line, fixes |-> <<>>,
              warnings |-> << [col |-> 0, op |-> "column count mismatch",
                               n |-> Len(expected_positions),
                               got |-> Len(actual_positions)] >>]
        ELSE LET st == FixColumns([result_line |-> data_line,
                                   cumulative_shift |-> 0,
                                   fixes |-> <<>>, warnings |-> <<>>],
                                  1, actual_positions, expected_positions)
             IN  [line |-> st.result_line, fixes |-> st.fixes,
                  warnings |-> st.warnings]

(***************************************************************************)
(* fix_table_alignment: the locals of the scan are the state.  The line    *)
(* index i is 1-based here (i = Python's i + 1), so the recorded line      *)
(* number line_num + 1 of the source is the index itself.                  *)
(***************************************************************************)
VARIABLES
    text,           \* lines = text.split("\n") of the current call
    i,              \* scan position of the outer while loop
    result,         \* result list
    all_fixes,      \* [line, fixes] entries
    all_warnings,   \* [line, warnings] entries
    pc,             \* "scan", "fixed", "wrap", "wrapped", "returned";
                    \* "batch", "batch_done" between and after the files of a batch
    call,           \* 1: first call of fix_table_alignment, 2: call on its output
    first,          \* what the first call returned (history, set when call 2 starts)
    blocks,         \* history: the table blocks delimited by the current call
    aligned,        \* history: the (line, grid) pairs handed to _fix_data_row
    max_width,      \* wrap_long_lines: the width in force (0 before the call)
    wi,             \* wrap_long_lines: 1-based index of the for loop
    wresult,        \* wrap_long_lines: result list
    changes,        \* wrap_long_lines: changes list
    origin,         \* history: for each line of wresult, the input index it came from
    width_arg,      \* wrap_long_lines: max_width as passed, <<>> for None
    fs,             \* the files: path -> lines of the file
    fargs,          \* fix_text_file / format_text_file: the arguments of the call
    ret,            \* fix_text_file / format_text_file: the returned dict
    queue,          \* fix_all_text_files: the matched files not yet processed
    results,        \* fix_all_text_files: results list
    batch,          \* fix_all_text_files: [in_place, matched], the argument and
                    \* what dir_path.glob(pattern) yields
    activity,       \* evaluate_activity: the ActivityInput it was given
    metrics,        \* evaluate_activity: the ActivityMetrics it returned
    session,        \* evaluate_session: its arguments
    evaluation,     \* evaluate_session: results, intensity_profile, overall
    pdf             \* text_to_pdf: the files, the requested path and the
                    \* locals of _get_versioned_path

vars == <<text, i, result, all_fixes, all_warnings, pc, call, first, blocks,
          aligned, max_width, wi, wresult, changes, origin, width_arg,
          fs, fargs, ret, queue, results, batch,
          activity, metrics, session, evaluation, pdf>>

fixVars == <<text, i, result, all_fixes, all_warnings, call, first, blocks, aligned>>
wrapVars == <<max_width, wi, wresult, changes, origin, width_arg>>
ioVars == <<fs, fargs, ret, queue, results, batch>>
toolVars == <<activity, metrics, session, evaluation, pdf>>

\* line 164-165: a later border's grid replaces the current one
UpdateColPositions_Always(col_positions, new_positions) == new_positions

UpdateColPositions(col_positions, new_positions) ==
    IF Len(new_positions) >= Len(col_positions) THEN new_positions
    ELSE col_positions

\* lines 158-172: the inner while loop; blk = [j, col_positions, borders],
\* borders being the history of what each border line of the block yielded
RECURSIVE CollectBlock_StopAtData(_, _)
CollectBlock_StopAtData(lines, blk) ==
    IF blk.j > Len(lines) THEN blk
    ELSE LET next_line == lines[blk.j]
         IN  IF _is_table_border_line(next_line) THEN
                 CollectBlock_StopAtData(lines,
                     [j |-> blk.j + 1,
                      col_positions |->
                          UpdateColPositions(blk.col_positions,
                                             _get_column_positions(next_line)),
                      borders |-> Append(blk.borders,
                          [line |-> blk.j,
                           positions |-> _get_column_positions(next_line)])])
             ELSE blk

RECURSIVE CollectBlock(_, _)
CollectBlock(lines, blk) ==
    IF blk.j > Len(lines) THEN blk
    ELSE LET next_line == lines[blk.j]
         IN  IF _is_table_border_line(next_line) THEN
                 CollectBlock(lines,
                     [j |-> blk.j + 1,
                      col_positions |->
                          UpdateColPositions(blk.col_positions,
                                             _get_column_positions(next_line)),
                      borders |-> Append(blk.borders,
                          [line |-> blk.j,
                           positions |-> _get_column_positions(next_line)])])
             ELSE IF _is_table_data_line(next_line) THEN
                 CollectBlock(lines, [blk EXCEPT !.j = blk.j + 1])
             ELSE blk

\* lines 175-190: the for loop over table_lines (the lines k..last of the block);
\* acc = [result, all_fixes, all_warnings, aligned]
RECURSIVE FixRows(_, _, _, _, _)
FixRows(lines, k, last, col_positions, acc) ==
    IF k > last THEN acc
    ELSE IF _is_table_data_line(lines[k]) THEN
        LET r == _fix_data_row(lines[k], col_positions)
        IN  FixRows(lines, k + 1, last, col_positions,
                [result |-> Append(acc.result, r.line),
                 all_fixes |->
                     IF r.fixes # <<>>
                     THEN Append(acc.all_fixes, [line |-> k, fixes |-> r.fixes])
                     ELSE acc.all_fixes,
                 all_warnings |->
                     IF r.warnings # <<>>
                     THEN Append(acc.all_warnings,
                                 [line |-> k, warnings |-> r.warnings])
                     ELSE acc.all_warnings,
                 aligned |-> Append(acc.aligned,
                                    [line |-> k, expected |-> col_positions,
                                     steps |-> RowSteps(lines[k],
                                                        col_positions)])])
    ELSE FixRows(lines, k + 1, last, col_positions,
                 [acc EXCEPT !.result = Append(acc.result, lines[k])])

\* lines 150-192: one iteration of the outer loop at a border line
FixBlock_DropBorders ==
    /\ pc = "scan"
    /\ i <= Len(text)
    /\ _is_table_border_line(text[i])
    /\ LET blk == CollectBlock(text,
                      [j |-> i + 1,
                       col_positions |-> _get_column_positions(text[i]),
                       borders |-> << [line |-> i,
                                       positions |->
                                           _get_column_positions(text[i])] >>])
           acc == FixRows(text, i + 1, blk.j - 1, blk.col_positions,
                      [result |-> result, all_fixes |-> all_fixes,
                       all_warnings |-> all_warnings, aligned |-> aligned])
       IN  /\ result' = acc.result
           /\ all_fixes' = acc.all_fixes
           /\ all_warnings' = acc.all_warnings
           /\ aligned' = acc.aligned
           /\ blocks' = Append(blocks,
                  [first |-> i, last |-> blk.j - 1,
                   col_positions |-> blk.col_positions,
                   borders |-> blk.borders])
           /\ i' = blk.j
    /\ UNCHANGED <<text, pc, call, first>>
    /\ UNCHANGED wrapVars
    /\ UNCHANGED ioVars
    /\ UNCHANGED toolVars

FixBlock ==
    /\ pc = "scan"
    /\ i <= Len(text)
    /\ _is_table_border_line(text[i])
    /\ LET blk == CollectBlock(text,
                      [j |-> i + 1,
                       col_positions |-> _get_column_positions(text[i]),
                       borders |-> << [line |-> i,
                                       positions |->
                                           _get_column_positions(text[i])] >>])
           acc == FixRows(text, i, blk.j - 1, blk.col_positions,
                      [result |-> result, all_fixes |-> all_fixes,
                       all_warnings |-> all_warnings, aligned |-> aligned])
       IN  /\ result' = acc.result
           /\ all_fixes' = acc.all_fixes
           /\ all_warnings' = acc.all_warnings
           /\ aligned' = acc.aligned
           /\ blocks' = Append(blocks,
                  [first |-> i, last |-> blk.j - 1,
                   col_positions |-> blk.col_positions,
                   borders |-> blk.borders])
           /\ i' = blk.j
    /\ UNCHANGED <<text, pc, call, first>>
    /\ UNCHANGED wrapVars
    /\ UNCHANGED ioVars
    /\ UNCHANGED toolVars

\* lines 193-195: a line outside every table block
FixOther_Stripped ==
    /\ pc = "scan"
    /\ i <= Len(text)
    /\ ~ _is_table_border_line(text[i])
    /\ result' = Append(result, Strip(text[i]))
    /\ i' = i + 1
    /\ UNCHANGED <<text, all_fixes, all_warnings, pc, call, first, blocks, aligned>>
    /\ UNCHANGED wrapVars
    /\ UNCHANGED ioVars
    /\ UNCHANGED toolVars

FixOther ==
    /\ pc = "scan"
    /\ i <= Len(text)
    /\ ~ _is_table_border_line(text[i])
    /\ result' = Append(result, text[i])
    /\ i' = i + 1
    /\ UNCHANGED <<text, all_fixes, all_warnings, pc, call, first, blocks, aligned>>
    /\ UNCHANGED wrapVars
    /\ UNCHANGED ioVars
    /\ UNCHANGED toolVars

\* line 147 false, line 197: the loop ends and the call returns
FixReturn_Early ==
    /\ pc = "scan"
    /\ i >= Len(text)
    /\ pc' = "fixed"
    /\ UNCHANGED fixVars
    /\ UNCHANGED wrapVars
    /\ UNCHANGED ioVars
    /\ UNCHANGED toolVars

FixReturn ==
    /\ pc = "scan"
    /\ i > Len(text)
    /\ pc' = "fixed"
    /\ UNCHANGED fixVars
    /\ UNCHANGED wrapVars
    /\ UNCHANGED ioVars
    /\ UNCHANGED toolVars

\* a caller feeds fixed_text to fix_table_alignment again
FixAgain ==
    /\ pc = "fixed"
    /\ call = 1
    /\ first' = [text |-> text, fixed_text |-> result,
                 fixes |-> all_fixes, warnings |-> all_warnings]
    /\ text' = result
    /\ i' = 1
    /\ result' = <<>>
    /\ all_fixes' = <<>>
    /\ all_warnings' = <<>>
    /\ blocks' = <<>>
    /\ aligned' = <<>>
    /\ call' = 2
    /\ pc' = "scan"
    /\ UNCHANGED wrapVars
    /\ UNCHANGED ioVars
    /\ UNCHANGED toolVars

(***************************************************************************)
(* Line Wrapper: wrap_long_lines                                           *)
(***************************************************************************)
\* line 329
DEFAULT_MAX_WIDTH == 120
MIN_WRAP_WIDTH == 20

\* lines 301 and 337: a line the wrapper treats as part of a table
IsTableLine_BorderOnly(line) == _is_table_border_line(line)

IsTableLine(line) == _is_table_border_line(line) \/ _is_table_data_line(line)

RECURSIVE MaxLen(_)
MaxLen(lines) ==
    IF lines = <<>> THEN 0 ELSE Max(Len(Head(lines)), MaxLen(Tail(lines)))

\* lines 297-303
_get_max_table_width_AllLines(lines) == MaxLen(lines)

_get_max_table_width(lines) == MaxLen(SelectSeq(lines, IsTableLine))

_get_line_indent(line) == SubSeq(line, 1, Len(line) - Len(LStrip(line)))

\* line 356: re.match(r'^([-*<bullet><left tee><bottom-left corner>]\s*|[0-9]+\.\s*)')
\* returns len(prefix), 0 when there is no match
BulletGlyphs == {"-", "*", "bullet", "tL", "cBL"}
Digits == {"0", "1", "2", "3", "4", "5", "6", "7", "8", "9"}

RECURSIVE RunLength(_, _, _)
RunLength(s, from, S) ==
    IF from <= Len(s) /\ s[from] \in S THEN 1 + RunLength(s, from + 1, S) ELSE 0

PrefixLen(content) ==
    IF content # <<>> /\ content[1] \in BulletGlyphs
    THEN 1 + RunLength(content, 2, Whitespace)
    ELSE LET d == RunLength(content, 1, Digits)
         IN  IF d > 0 /\ d < Len(content) /\ content[d + 1] = "."
             THEN d + 1 + RunLength(content, d + 2, Whitespace)
             ELSE 0

(***************************************************************************)
(* textwrap.wrap as called at lines 375-381, 392-397 and 404, for text     *)
(* whose words hold no hyphen: chunks are the maximal runs of whitespace   *)
(* and of non-whitespace; lines are filled greedily; whitespace is dropped *)
(* at the start of every line but the first and at the end of every line.  *)
(***************************************************************************)
IsWs(chunk) == \A k \in 1..Len(chunk) : chunk[k] \in Whitespace

RECURSIVE SplitChunks(_)
SplitChunks(s) ==
    IF s = <<>> THEN <<>>
    ELSE LET n == IF s[1] \in Whitespace
                  THEN RunLength(s, 1, Whitespace)
                  ELSE RunLength(s, 1, Range(s) \ Whitespace)
         IN  <<SubSeq(s, 1, n)>> \o SplitChunks(SubSeq(s, n + 1, Len(s)))

\* the number of leading chunks that fit: cur_len + len(chunk) <= width
RECURSIVE Fit(_, _, _)
Fit(chunks, cur_len, width) ==
    IF chunks # <<>> /\ cur_len + Len(chunks[1]) <= width
    THEN 1 + Fit(Tail(chunks), cur_len + Len(chunks[1]), width)
    ELSE 0

RECURSIVE Join(_)
Join(chunks) == IF chunks = <<>> THEN <<>> ELSE Head(chunks) \o Join(Tail(chunks))

RECURSIVE WrapChunks(_, _, _, _)
WrapChunks(chunks, width, break_long_words, lines) ==
    IF chunks = <<>> THEN lines
    ELSE LET c0 == IF IsWs(chunks[1]) /\ lines # <<>> THEN Tail(chunks) ELSE chunks
             n == Fit(c0, 0, width)
             taken == SubSeq(c0, 1, n)
             rest == SubSeq(c0, n + 1, Len(c0))
             cur_len == Len(Join(taken))
             long == rest # <<>> /\ Len(rest[1]) > width
             space_left == IF width < 1 THEN 1 ELSE width - cur_len
             cur_line ==
                 IF long /\ break_long_words
                 THEN Append(taken, SubSeq(rest[1], 1, space_left))
                 ELSE IF long /\ taken = <<>> THEN <<rest[1]>>
                 ELSE taken
             left ==
                 IF long /\ break_long_words
                 THEN <<SubSeq(rest[1], space_left + 1, Len(rest[1]))>> \o Tail(rest)
                 ELSE IF long /\ taken = <<>> THEN Tail(rest)
                 ELSE rest
             kept == IF cur_line # <<>> /\ IsWs(cur_line[Len(cur_line)])
                     THEN SubSeq(cur_line, 1, Len(cur_line) - 1)
                     ELSE cur_line
         IN  WrapChunks(left, width, break_long_words,
                        IF kept # <<>> THEN Append(lines, Join(kept)) ELSE lines)

TextWrap(content, width, break_long_words) ==
    WrapChunks(SplitChunks(content), width, break_long_words, <<>>)

\* line 366: max_width - len(indent) - len(prefix)
FirstLineWidth_NoPrefix(width, indent_len, prefix_len) == width - indent_len

FirstLineWidth(width, indent_len, prefix_len) == width - indent_len - prefix_len

\* lines 352-381 for one over-width line
WrapPlan(line, width) ==
    LET indent == _get_line_indent(line)
        stripped == Strip(line)
        plen == PrefixLen(stripped)
        prefix == SubSeq(stripped, 1, plen)
        content == SubSeq(stripped, plen + 1, Len(stripped))
        subsequent_indent == indent \o Spaces(plen)
        first_line_width == FirstLineWidth(width, Len(indent), plen)
        subsequent_width == width - Len(subsequent_indent)
    IN  [indent |-> indent, prefix |-> prefix, content |-> content,
         subsequent_indent |-> subsequent_indent,
         first_line_width |-> first_line_width,
         subsequent_width |-> subsequent_width,
         room |-> ~ (first_line_width < MIN_WRAP_WIDTH
                        \/ subsequent_width < MIN_WRAP_WIDTH)]

\* lines 389-399: the output lines of a split line
RECURSIVE Rewrapped(_, _, _)
Rewrapped(wrapped, subsequent_width, subsequent_indent) ==
    IF wrapped = <<>> THEN <<>>
    ELSE LET rewrapped == TextWrap(Head(wrapped), subsequent_width, FALSE)
         IN  [k \in 1..Len(rewrapped) |-> subsequent_indent \o rewrapped[k]]
                 \o Rewrapped(Tail(wrapped), subsequent_width, subsequent_indent)

\* line 404: the reported line count
RECURSIVE ExtraLines(_, _)
ExtraLines(wrapped, subsequent_width) ==
    IF wrapped = <<>> THEN 0
    ELSE Len(TextWrap(Head(wrapped), subsequent_width, TRUE)) - 1
             + ExtraLines(Tail(wrapped), subsequent_width)

\* the widths a caller passes: <<>> is max_width=None
WidthArgs == {<<>>, <<22>>, <<80>>}

\* lines 325-329: the width in force for max_width as passed
EffectiveWidth_NoDefault(arg, lines) ==
    IF arg = <<>> THEN _get_max_table_width(lines) ELSE arg[1]

EffectiveWidth(arg, lines) ==
    IF arg = <<>>
    THEN LET m == _get_max_table_width(lines)
         IN  IF m = 0 THEN DEFAULT_MAX_WIDTH ELSE m
    ELSE arg[1]

\* lines 325-333
WrapStart ==
    /\ pc = "fixed"
    /\ call = 1
    /\ \E arg \in WidthArgs :
          /\ width_arg' = arg
          /\ max_width' = EffectiveWidth(arg, result)
    /\ wi' = 1
    /\ wresult' = <<>>
    /\ changes' = <<>>
    /\ origin' = <<>>
    /\ pc' = "wrap"
    /\ UNCHANGED fixVars
    /\ UNCHANGED ioVars
    /\ UNCHANGED toolVars

\* the four pass-through branches append the line unchanged
PassThrough ==
    /\ wresult' = Append(wresult, result[wi])
    /\ origin' = Append(origin, wi)
    /\ wi' = wi + 1
    /\ UNCHANGED <<max_width, width_arg, changes, pc>>
    /\ UNCHANGED fixVars
    /\ UNCHANGED ioVars
    /\ UNCHANGED toolVars

\* lines 337-339
WrapTableLine ==
    /\ pc = "wrap"
    /\ wi <= Len(result)
    /\ IsTableLine(result[wi])
    /\ PassThrough

\* lines 342-344
WrapBlank ==
    /\ pc = "wrap"
    /\ wi <= Len(result)
    /\ ~ IsTableLine(result[wi])
    /\ Strip(result[wi]) = <<>>
    /\ PassThrough

\* lines 347-349
WrapFits ==
    /\ pc = "wrap"
    /\ wi <= Len(result)
    /\ ~ IsTableLine(result[wi])
    /\ Strip(result[wi]) # <<>>
    /\ Len(result[wi]) <= max_width
    /\ PassThrough

\* lines 369-372
WrapNoRoom ==
    /\ pc = "wrap"
    /\ wi <= Len(result)
    /\ ~ IsTableLine(result[wi])
    /\ Strip(result[wi]) # <<>>
    /\ Len(result[wi]) > max_width
    /\ ~ WrapPlan(result[wi], max_width).room
    /\ PassThrough

\* lines 383-386
WrapSingle ==
    /\ pc = "wrap"
    /\ wi <= Len(result)
    /\ ~ IsTableLine(result[wi])
    /\ Strip(result[wi]) # <<>>
    /\ Len(result[wi]) > max_width
    /\ LET plan == WrapPlan(result[wi], max_width)
       IN  /\ plan.room
           /\ Len(TextWrap(plan.content, plan.first_line_width, FALSE)) <= 1
    /\ PassThrough

\* lines 388-405
WrapSplit ==
    /\ pc = "wrap"
    /\ wi <= Len(result)
    /\ ~ IsTableLine(result[wi])
    /\ Strip(result[wi]) # <<>>
    /\ Len(result[wi]) > max_width
    /\ LET plan == WrapPlan(result[wi], max_width)
           wrapped == TextWrap(plan.content, plan.first_line_width, FALSE)
           out == <<plan.indent \o plan.prefix \o wrapped[1]>>
                      \o Rewrapped(Tail(wrapped), plan.subsequent_width,
                                   plan.subsequent_indent)
       IN  /\ plan.room
           /\ Len(wrapped) > 1
           /\ wresult' = wresult \o out
           /\ origin' = origin \o [k \in 1..Len(out) |-> wi]
           /\ changes' = Append(changes,
                  [line |-> wi, original_length |-> Len(result[wi]),
                   wrapped_to |-> Len(wrapped)
                       + ExtraLines(Tail(wrapped), plan.subsequent_width)])
    /\ wi' = wi + 1
    /\ UNCHANGED <<max_width, width_arg, pc>>
    /\ UNCHANGED fixVars
    /\ UNCHANGED ioVars
    /\ UNCHANGED toolVars

\* line 407
WrapReturn ==
    /\ pc = "wrap"
    /\ wi > Len(result)
    /\ pc' = "wrapped"
    /\ UNCHANGED <<max_width, width_arg, wi, wresult, changes, origin>>
    /\ UNCHANGED fixVars
    /\ UNCHANGED ioVars
    /\ UNCHANGED toolVars

(***************************************************************************)
(* File-level wrappers: fix_text_file, format_text_file, fix_all_text_files *)
(* A path is [parent, stem, suffix], the stem a sequence of name parts, so  *)
(* that p.stem + "_fixed" is Append(p.stem, "_fixed").  A file is          *)
(* [readable, lines]; open() of a file that is not readable raises.        *)
(* An optional argument is <<>> for None and <<x>> for the value x.        *)
(***************************************************************************)
None == <<>>
InputPath == [parent |-> "out", stem |-> <<"plan">>, suffix |-> ".txt"]
ExplicitPath == [parent |-> "out", stem |-> <<"copy">>, suffix |-> ".txt"]
OutputPathArgs == {None, <<ExplicitPath>>}

\* lines 234-235 and 451-452: p.parent / (p.stem + tag + p.suffix)
SuffixedPath_Same(input_path, tag) == input_path

SuffixedPath(input_path, tag) ==
    [input_path EXCEPT !.stem = Append(input_path.stem, tag)]

\* lines 230-235 and 447-452
OutputPath(input_path, output_path, in_place, tag) ==
    IF output_path = None
    THEN IF in_place THEN input_path ELSE SuffixedPath(input_path, tag)
    ELSE output_path[1]

\* open(path, "w").write(content)
WriteFile(fsys, path, content) ==
    [q \in (DOMAIN fsys) \cup {path} |->
        IF q = path THEN [readable |-> TRUE, lines |-> content] ELSE fsys[q]]

\* lines 238 and 455: the condition under which the output file is written
ShouldWrite_Always(fixes, wraps) == TRUE

ShouldWrite(fixes, wraps) == fixes # <<>> \/ wraps # <<>>

\* lines 220, 245-247
FixStatus_NoPartial(fixes, warnings) ==
    IF fixes = <<>> /\ warnings = <<>> THEN "no_changes"
    ELSE IF fixes # <<>> THEN "fixed"
    ELSE "warnings_only"

FixStatus(fixes, warnings) ==
    IF fixes = <<>> /\ warnings = <<>> THEN "no_changes"
    ELSE IF fixes # <<>> /\ warnings # <<>> THEN "partial"
    ELSE IF fixes # <<>> THEN "fixed"
    ELSE "warnings_only"

\* lines 220-262 of fix_text_file, after the file was read and aligned:
\* the files afterwards and the returned dict (the message is left out;
\* has_output_path tells whether the dict has the key at all)
fix_text_file(fsys, input_path, output_path, in_place, fixed_text, fixes, warnings) ==
    IF fixes = <<>> /\ warnings = <<>>
    THEN [fs |-> fsys,
          ret |-> [status |-> FixStatus(fixes, warnings),
                   input_path |-> input_path,
                   has_output_path |-> FALSE, output_path |-> None,
                   fixes |-> <<>>, warnings |-> <<>>]]
    ELSE LET out == OutputPath(input_path, output_path, in_place, "_fixed")
         IN  [fs |-> IF ShouldWrite(fixes, <<>>)
                     THEN WriteFile(fsys, out, fixed_text) ELSE fsys,
              ret |-> [status |-> FixStatus(fixes, warnings),
                       input_path |-> input_path,
                       has_output_path |-> TRUE,
                       output_path |-> IF fixes # <<>> THEN <<out>> ELSE None,
                       fixes |-> fixes, warnings |-> warnings]]

\* lines 436-477 of format_text_file, after the file was read, aligned and wrapped
format_text_file(fsys, input_path, output_path, in_place, wrapped_text, table_fixes, table_warnings, wrap_changes) ==
    IF table_fixes = <<>> /\ table_warnings = <<>> /\ wrap_changes = <<>>
    THEN [fs |-> fsys,
          ret |-> [status |-> "no_changes", input_path |-> input_path,
                   has_output_path |-> FALSE, output_path |-> None,
                   table_fixes |-> <<>>, table_warnings |-> <<>>,
                   line_wraps |-> <<>>]]
    ELSE LET out == OutputPath(input_path, output_path, in_place, "_formatted")
         IN  [fs |-> IF ShouldWrite(table_fixes, wrap_changes)
                     THEN WriteFile(fsys, out, wrapped_text) ELSE fsys,
              ret |-> [status |-> "formatted", input_path |-> input_path,
                       has_output_path |-> TRUE,
                       output_path |->
                           IF table_fixes # <<>> \/ wrap_changes # <<>>
                           THEN <<out>> ELSE None,
                       table_fixes |-> table_fixes,
                       table_warnings |-> table_warnings,
                       line_wraps |-> wrap_changes]]

\* fix_text_file(InputPath, output_path, in_place) returns
FixTextFile ==
    /\ pc = "fixed"
    /\ call = 1
    /\ \E output_path \in OutputPathArgs, in_place \in BOOLEAN :
          LET o == fix_text_file(fs, InputPath, output_path, in_place,
                                 result, all_fixes, all_warnings)
          IN  /\ fs' = o.fs
              /\ ret' = o.ret
              /\ fargs' = [fn |-> "fix_text_file", input_path |-> InputPath,
                           output_path |-> output_path, in_place |-> in_place]
    /\ pc' = "returned"
    /\ UNCHANGED <<queue, results, batch>>
    /\ UNCHANGED fixVars
    /\ UNCHANGED wrapVars
    /\ UNCHANGED toolVars

\* format_text_file(InputPath, output_path, in_place, width_arg) returns
FormatTextFile ==
    /\ pc = "wrapped"
    /\ \E output_path \in OutputPathArgs, in_place \in BOOLEAN :
          LET o == format_text_file(fs, InputPath, output_path, in_place,
                                    wresult, all_fixes, all_warnings, changes)
          IN  /\ fs' = o.fs
              /\ ret' = o.ret
              /\ fargs' = [fn |-> "format_text_file", input_path |-> InputPath,
                           output_path |-> output_path, in_place |-> in_place]
    /\ pc' = "returned"
    /\ UNCHANGED <<queue, results, batch>>
    /\ UNCHANGED fixVars
    /\ UNCHANGED wrapVars
    /\ UNCHANGED toolVars

\* fix_all_text_files, lines 283-286: the next matched file is opened, read
\* and handed to fix_table_alignment
BatchOpen ==
    /\ pc = "batch"
    /\ queue # <<>>
    /\ fs[Head(queue)].readable
    /\ text' = fs[Head(queue)].lines
    /\ i' = 1
    /\ result' = <<>>
    /\ all_fixes' = <<>>
    /\ all_warnings' = <<>>
    /\ blocks' = <<>>
    /\ aligned' = <<>>
    /\ fargs' = [fn |-> "fix_text_file", input_path |-> Head(queue),
                 output_path |-> None, in_place |-> batch.in_place]
    /\ pc' = "scan"
    /\ UNCHANGED <<call, first, fs, ret, queue, results, batch>>
    /\ UNCHANGED wrapVars
    /\ UNCHANGED toolVars

\* lines 287-292: open() or read() raised; the batch goes on
BatchError_Raises ==
    /\ pc = "batch"
    /\ queue # <<>>
    /\ ~ fs[Head(queue)].readable
    /\ pc' = "raised"
    /\ UNCHANGED <<fs, fargs, ret, queue, results, batch>>
    /\ UNCHANGED fixVars
    /\ UNCHANGED wrapVars
    /\ UNCHANGED toolVars

BatchError ==
    /\ pc = "batch"
    /\ queue # <<>>
    /\ ~ fs[Head(queue)].readable
    /\ results' = Append(results,
                         [status |-> "error", input_path |-> Head(queue)])
    /\ queue' = Tail(queue)
    /\ UNCHANGED <<pc, fs, fargs, ret, batch>>
    /\ UNCHANGED fixVars
    /\ UNCHANGED wrapVars
    /\ UNCHANGED toolVars

\* lines 285-286: fix_text_file returns and its result is appended
BatchFileDone ==
    /\ pc = "fixed"
    /\ LET o == fix_text_file(fs, fargs.input_path, fargs.output_path,
                              fargs.in_place, result, all_fixes, all_warnings)
       IN  /\ fs' = o.fs
           /\ ret' = o.ret
           /\ results' = Append(results, o.ret)
    /\ queue' = Tail(queue)
    /\ pc' = "batch"
    /\ UNCHANGED <<fargs, batch>>
    /\ UNCHANGED fixVars
    /\ UNCHANGED wrapVars
    /\ UNCHANGED toolVars

\* line 294
BatchReturn ==
    /\ pc = "batch"
    /\ queue = <<>>
    /\ pc' = "batch_done"
    /\ UNCHANGED ioVars
    /\ UNCHANGED fixVars
    /\ UNCHANGED wrapVars
    /\ UNCHANGED toolVars

(***************************************************************************)
(* Input texts                                                             *)
(***************************************************************************)
MaxRowLen == 7
MaxLines == 3

\* every data line over a vertical bar, a space and a letter, under a border
RowAlphabet == {"v", " ", "a"}
RowLines ==
    {l \in UNION {[1..n -> RowAlphabet] : n \in 1..MaxRowLen} :
        _is_table_data_line(l)}
RowBorders ==
    { <<"cTL", "h", "h", "tT", "h", "h", "cTR">>,
      <<"cTL", "h", "tT", "h", "h", "cTR">>,
      <<"cBL", "h", "h", "cBR">>,
      <<" ", "tL", "h", "h", "x", "h", "tB", "h", "cBR">> }
RowTexts == {<<b, d>> : b \in RowBorders, d \in RowLines}

\* texts of up to MaxLines lines drawn from a pool of borders, rows, ordinary
\* and over-width lines
LinePool ==
    { <<"cTL", "h", "h", "tT", "h", "h", "cTR">>,
      <<"cBL", "h", "tB", "h", "h", "h", "cBR">>,
      <<"tL", "h", "h", "x", "h", "h", "tR">>,
      <<"v", "a", "v", "b", "v">>,
      <<"cTL", "a", "cTR">>,
      <<" ", "a", " ">>,
      <<>>,
      <<"-", " ">> \o Word(10) \o <<" ">> \o Word(10) \o <<" ">> \o Word(5),
      <<" ", "-", " ">> \o Word(10) \o <<" ">> \o Word(10) \o <<" ">> \o Word(5),
      Word(25),
      <<"v">> \o Word(10) \o <<" ">> \o Word(12) \o <<"v">> }
PoolTexts == UNION {[1..n -> LinePool] : n \in 1..MaxLines}

\* the texts of the scenarios of the specification: the two-column table
\* with a drifted row, the row whose content is 20 characters too long under
\* a border with offsets 0, 9, 12, and 150-character bulleted lines
\* ("- " and 148 characters of words of the given lengths)
RECURSIVE JoinWords(_)
JoinWords(lengths) ==
    IF lengths = <<>> THEN <<>>
    ELSE IF Len(lengths) = 1 THEN Word(lengths[1])
    ELSE Word(lengths[1]) \o <<" ">> \o JoinWords(Tail(lengths))
BulletLine(lengths) == <<"-", " ">> \o JoinWords(lengths)
DriftedTable ==
    << <<"cTL", "h", "h", "tT", "h", "h", "h", "h", "cTR">>,
       <<"v", " ", "A", " ", "v", " ", "B", "B", " ", "v">>,
       <<"v", "X", "v", "Y", "Y", "v">>,
       <<"cBL", "h", "h", "tB", "h", "h", "h", "h", "cBR">> >>
TooLongTable ==
    << <<"cTL", "h", "h", "h", "h", "h", "h", "h", "h", "tT", "h", "h", "cTR">>,
       <<"v", "T", "h", "i", "s", "I", "s", "W", "a", "y", "T", "o", "o",
         "L", "o", "n", "g", "F", "o", "r", "I", "t", "s", "C", "o", "l",
         "u", "m", "n", "v", "o", "k", "v">> >>
BulletLines ==
    { BulletLine(<<10, 10, 10, 10, 10, 10, 10, 10, 10, 10, 10, 10, 10, 5>>),
      BulletLine(<<78, 69>>),
      BulletLine(<<39, 40, 67>>),
      BulletLine(<<40, 40, 40, 25>>) }
\* over-width lines for max_width = 22: a word longer than the width after a
\* short one, and lines that start with "-" or with digits and "." directly
\* followed by more of the word
LongWordLine == Word(2) \o <<" ">> \o Word(25)
DashWordLine == <<"-">> \o Word(12) \o <<" ">> \o Word(12)
DecimalLine ==
    <<"3", ".", "1", "4", " ">> \o Word(10) \o <<" ">> \o Word(10)
MarkerLines == {LongWordLine, DashWordLine, DecimalLine}
ScenarioTexts ==
    {DriftedTable, TooLongTable}
        \cup {<<l>> : l \in BulletLines \cup MarkerLines}

\* the directory of a batch: up to MaxFiles matched files, each unreadable or
\* holding a text that needs nothing, a fix, a fix and a warning, or only a
\* warning
MaxFiles == 3
BatchNames == <<"a", "b", "c", "d", "e">>
BatchPath(k) == [parent |-> "out", stem |-> <<BatchNames[k]>>, suffix |-> ".txt"]
BatchTexts ==
    { << <<" ", "a", " ">> >>,
      << <<"cTL", "h", "h", "tT", "h", "h", "cTR">>, <<"v", "a", "v", "b", "v">> >>,
      << <<"cTL", "h", "h", "tT", "h", "h", "cTR">>, <<"v", "a", "a", "a", "v", "v">> >>,
      << <<"cTL", "h", "h", "tT", "h", "h", "cTR">>, <<"v", "v">> >> }
BatchFiles ==
    {[readable |-> FALSE, lines |-> <<>>]}
        \cup {[readable |-> TRUE, lines |-> t] : t \in BatchTexts}
DirOf(files) ==
    [p \in {BatchPath(k) : k \in 1..Len(files)} |->
        files[CHOOSE k \in 1..Len(files) : BatchPath(k) = p]]

\* no call of evaluate_activity, evaluate_session or text_to_pdf was made
NoTool ==
    /\ activity = [name |-> "none"]
    /\ metrics = [name |-> "none"]
    /\ session = [activities |-> <<>>]
    /\ evaluation = [activities |-> <<>>, intensity_profile |-> <<>>,
                     overall_recommendations |-> <<>>]
    /\ pdf = [files |-> {}, before |-> {}, requested |-> <<>>,
              base_stem |-> <<>>, version |-> 0, output_path |-> <<>>]

NoCall ==
    /\ i = 1
    /\ result = <<>>
    /\ all_fixes = <<>>
    /\ all_warnings = <<>>
    /\ call = 1
    /\ first = [text |-> <<>>, fixed_text |-> <<>>, fixes |-> <<>>, warnings |-> <<>>]
    /\ blocks = <<>>
    /\ aligned = <<>>
    /\ max_width = 0
    /\ wi = 1
    /\ wresult = <<>>
    /\ changes = <<>>
    /\ origin = <<>>
    /\ width_arg = <<>>
    /\ fargs = [fn |-> "none"]
    /\ ret = [status |-> "none"]
    /\ results = <<>>
    /\ NoTool

\* fix_all_text_files(directory, pattern, in_place) is called
BatchInit ==
    /\ fs \in {DirOf(files) :
                  files \in UNION {[1..n -> BatchFiles] : n \in 1..MaxFiles}}
    /\ queue = [k \in 1..Cardinality(DOMAIN fs) |-> BatchPath(k)]
    /\ batch \in {[in_place |-> b, matched |-> queue] : b \in BOOLEAN}
    /\ text = <<>>
    /\ pc = "batch"
    /\ NoCall

BatchNext ==
    \/ BatchOpen
    \/ BatchError
    \/ FixBlock
    \/ FixOther
    \/ FixReturn
    \/ BatchFileDone
    \/ BatchReturn

BatchSpec == BatchInit /\ [][BatchNext]_vars

\* the file InputPath holds the text; it is read and handed to
\* fix_table_alignment (lines 215-218, 427-431)
Init ==
    /\ text \in RowTexts \cup PoolTexts \cup ScenarioTexts
    /\ fs = [p \in {InputPath} |-> [readable |-> TRUE, lines |-> text]]
    /\ queue = <<>>
    /\ batch = [in_place |-> TRUE, matched |-> <<>>]
    /\ pc = "scan"
    /\ NoCall

Next ==
    \/ FixBlock
    \/ FixOther
    \/ FixReturn
    \/ FixAgain
    \/ WrapStart
    \/ WrapTableLine
    \/ WrapBlank
    \/ WrapFits
    \/ WrapNoRoom
    \/ WrapSingle
    \/ WrapSplit
    \/ WrapReturn
    \/ FixTextFile
    \/ FormatTextFile

Spec == Init /\ [][Next]_vars

\* one call of fix_table_alignment alone, from before the call: the call
\* binds the text (lines 141-145) and the while loop of lines 147-195 runs
\* an iteration whenever one is possible
ScanInit ==
    /\ text = <<>>
    /\ fs = [p \in {InputPath} |-> [readable |-> TRUE, lines |-> <<>>]]
    /\ queue = <<>>
    /\ batch = [in_place |-> TRUE, matched |-> <<>>]
    /\ pc = "idle"
    /\ NoCall

ScanCall ==
    /\ pc = "idle"
    /\ text' \in RowTexts \cup PoolTexts \cup ScenarioTexts
    /\ pc' = "scan"
    /\ UNCHANGED <<i, result, all_fixes, all_warnings, call, first, blocks,
                   aligned>>
    /\ UNCHANGED wrapVars
    /\ UNCHANGED ioVars
    /\ UNCHANGED toolVars

ScanNext ==
    \/ ScanCall
    \/ FixBlock
    \/ FixOther
    \/ FixReturn

\* line 150 true: the loop stands at a border line, which is when FixBlock
\* is enabled
AtBorder == pc = "scan" /\ i <= Len(text) /\ _is_table_border_line(text[i])

\* weak fairness of every step of the call; for FixBlock it is written out,
\* WF_vars(FixBlock) being []<>(~ ENABLED <<FixBlock>>_vars) \/ []<><<FixBlock>>_vars
ScanSpec ==
    /\ ScanInit
    /\ [][ScanNext]_vars
    /\ WF_vars(ScanCall)
    /\ WF_vars(FixOther)
    /\ WF_vars(FixReturn)
    /\ ([]<>(~ AtBorder) \/ []<><<FixBlock>>_vars)

(***************************************************************************)
(* Session evaluator: evaluator.py.  area_per_player is the quotient       *)
(* area / max(num_players, 1), kept as the fraction [num, den], den > 0;   *)
(* comparing it with an integer cross-multiplies.  float("inf") is         *)
(* <<>>, above every quotient.       A recommendation or a profile line is  *)
(* a tag or a record of the values its text is formatted from.             *)
(***************************************************************************)
THRESHOLDS ==
    << [threshold |-> <<20>>, category |-> "very_tight"],
       [threshold |-> <<50>>, category |-> "possession"],
       [threshold |-> <<100>>, category |-> "game_like"],
       [threshold |-> <<200>>, category |-> "transitions"],
       [threshold |-> <<>>, category |-> "fitness"] >>

Less(q, n) == q.num < n * q.den
Greater(q, n) == q.num > n * q.den

\* line 46: area_per_player < threshold
BelowThreshold_OrEqual(area_per_player, threshold) ==
    threshold = <<>> \/ ~ Greater(area_per_player, threshold[1])

BelowThreshold(area_per_player, threshold) ==
    threshold = <<>> \/ Less(area_per_player, threshold[1])

\* lines 45-48: the loop over THRESHOLDS from the k-th entry on
RECURSIVE CategorizeFrom(_, _)
CategorizeFrom(area_per_player, k) ==
    IF k > Len(THRESHOLDS) THEN "fitness"
    ELSE IF BelowThreshold(area_per_player, THRESHOLDS[k].threshold)
    THEN THRESHOLDS[k].category
    ELSE CategorizeFrom(area_per_player, k + 1)

_categorize(area_per_player) == CategorizeFrom(area_per_player, 1)

\* line 53: area_per_player < 15
IsCramped_Ten(area_per_player) == Less(area_per_player, 10)

IsCramped(area_per_player) == Less(area_per_player, 15)

\* lines 51-68
_recommend(act, area_per_player, category) ==
    (IF IsCramped(area_per_player) THEN <<"very_cramped">> ELSE <<>>)
        \o (IF Greater(area_per_player, 250) THEN <<"very_spacious">> ELSE <<>>)
        \o (IF act.duration_minutes > 20 /\ category = "very_tight"
            THEN <<"long_duration_tight">> ELSE <<>>)

\* lines 71-82
evaluate_activity(act) ==
    LET area == act.area_length * act.area_width
        app == [num |-> area, den |-> Max(act.num_players, 1)]
        category == _categorize(app)
        recs == _recommend(act, app, category)
    IN  [name |-> act.name, area_sqm |-> area, area_per_player |-> app,
         category |-> category, recommendations |-> recs]

\* dict.get(key, default) for an optional key
Get(opt, default) == IF opt = <<>> THEN default ELSE opt[1]

\* lines 94-101: the ActivityInput built from one activity dict
ActivityInput(act_data, pitch_length, pitch_width, num_players) ==
    [name |-> act_data.name,
     area_length |-> Get(act_data.area_length, pitch_length),
     area_width |-> Get(act_data.area_width, pitch_width),
     num_players |-> Get(act_data.num_players, num_players),
     duration_minutes |-> Get(act_data.duration_minutes, 10),
     intensity |-> act_data.intensity]

\* line 105: act.intensity or 'medium'
IntensityOrMedium(intensity) ==
    IF intensity = <<>> THEN "medium" ELSE intensity[1]

\* line 116: all(a.get("intensity") == "high" for a in activities
\*               if a.get("intensity"))
AllHigh(activities) ==
    \A k \in 1..Len(activities) :
        activities[k].intensity # <<>> => activities[k].intensity[1] = "high"

\* the inputs: sides and player counts of an activity, and activity dicts
MaxSide == 20
MaxPlayers == 8
MaxActivities == 2
ActivityPool ==
    { [name |-> "rondo", area_length |-> <<10>>, area_width |-> <<10>>,
       num_players |-> <<8>>, duration_minutes |-> <<25>>,
       intensity |-> <<"high">>],
      [name |-> "match", area_length |-> <<>>, area_width |-> <<>>,
       num_players |-> <<>>, duration_minutes |-> <<>>,
       intensity |-> <<>>],
      [name |-> "passing", area_length |-> <<30>>, area_width |-> <<20>>,
       num_players |-> <<12>>, duration_minutes |-> <<>>,
       intensity |-> <<"low">>],
      [name |-> "ssg", area_length |-> <<40>>, area_width |-> <<30>>,
       num_players |-> <<>>, duration_minutes |-> <<15>>,
       intensity |-> <<"high">>] }
Sessions ==
    [pitch_length : {60}, pitch_width : {44}, num_players : {0, 16},
     activities : UNION {[1..n -> ActivityPool] : n \in 0..MaxActivities}]

\* nothing was called yet
EvalInit ==
    /\ text = <<>>
    /\ fs = [p \in {InputPath} |-> [readable |-> TRUE, lines |-> <<>>]]
    /\ queue = <<>>
    /\ batch = [in_place |-> TRUE, matched |-> <<>>]
    /\ pc = "idle"
    /\ NoCall

\* evaluate_activity(ActivityInput(...)) is called and returns
EvaluateActivity ==
    /\ pc = "idle"
    /\ \E length \in 0..MaxSide, width \in 0..MaxSide,
          players \in (-1)..MaxPlayers, minutes \in {10, 25} :
          /\ activity' = [name |-> "drill", area_length |-> length,
                          area_width |-> width, num_players |-> players,
                          duration_minutes |-> minutes, intensity |-> <<>>]
          /\ metrics' = evaluate_activity(activity')
    /\ pc' = "activity_done"
    /\ UNCHANGED <<session, evaluation, pdf>>
    /\ UNCHANGED fixVars
    /\ UNCHANGED wrapVars
    /\ UNCHANGED ioVars

\* evaluate_session(...) is called: lines 91-92
EvalSessionCall ==
    /\ pc = "idle"
    /\ session' \in Sessions
    /\ evaluation' = [activities |-> <<>>, intensity_profile |-> <<>>,
                      overall_recommendations |-> <<>>]
    /\ pc' = "session"
    /\ UNCHANGED <<activity, metrics, pdf>>
    /\ UNCHANGED fixVars
    /\ UNCHANGED wrapVars
    /\ UNCHANGED ioVars

\* lines 93-107: one iteration of the loop over the activities
EvalSessionStep ==
    /\ pc = "session"
    /\ Len(evaluation.activities) < Len(session.activities)
    /\ LET act_data == session.activities[Len(evaluation.activities) + 1]
           act == ActivityInput(act_data, session.pitch_length,
                                session.pitch_width, session.num_players)
           m == evaluate_activity(act)
       IN  /\ activity' = act
           /\ metrics' = m
           /\ evaluation' =
                  [evaluation EXCEPT
                      !.activities = Append(@, m),
                      !.intensity_profile =
                          Append(@, [name |-> act.name,
                                     intensity |->
                                         IntensityOrMedium(act.intensity),
                                     duration_minutes |-> act.duration_minutes,
                                     category |-> m.category])]
    /\ UNCHANGED <<pc, session, pdf>>
    /\ UNCHANGED fixVars
    /\ UNCHANGED wrapVars
    /\ UNCHANGED ioVars

\* lines 109-126: the overall recommendations and the return
EvalSessionReturn ==
    /\ pc = "session"
    /\ Len(evaluation.activities) = Len(session.activities)
    /\ LET categories == {evaluation.activities[k].category :
                             k \in 1..Len(evaluation.activities)}
       IN  evaluation' =
               [evaluation EXCEPT
                   !.overall_recommendations =
                       (IF Cardinality(categories) = 1
                        THEN <<"similar_spacing">> ELSE <<>>)
                       \o (IF AllHigh(session.activities)
                           THEN <<"all_high_intensity">> ELSE <<>>)]
    /\ pc' = "session_done"
    /\ UNCHANGED <<activity, metrics, session, pdf>>
    /\ UNCHANGED fixVars
    /\ UNCHANGED wrapVars
    /\ UNCHANGED ioVars

EvalNext ==
    \/ EvaluateActivity
    \/ EvalSessionCall
    \/ EvalSessionStep
    \/ EvalSessionReturn

EvalSpec == EvalInit /\ [][EvalNext]_vars

(***************************************************************************)
(* PDF output path: text_to_pdf.py.  A path is [parent, stem, suffix], a   *)
(* stem is a sequence of characters, pdf.files is the set of paths that    *)
(* exist, and pdf.before is that set as it was when text_to_pdf was        *)
(* called.  The input file is readable and the page layout is left out.    *)
(***************************************************************************)
DigitChars == <<"0", "1", "2", "3", "4", "5", "6", "7", "8", "9">>

\* \d
IsDigit(c) == c \in Range(DigitChars)

\* int(...) of a sequence of digits
RECURSIVE DigitsToInt(_)
DigitsToInt(digits) ==
    IF digits = <<>> THEN 0
    ELSE 10 * DigitsToInt(SubSeq(digits, 1, Len(digits) - 1))
         + (CHOOSE d \in 0..9 : DigitChars[d + 1] = digits[Len(digits)])

\* f"{version}"
RECURSIVE IntToDigits(_)
IntToDigits(n) ==
    IF n < 10 THEN <<DigitChars[n + 1]>>
    ELSE IntToDigits(n \div 10) \o <<DigitChars[(n % 10) + 1]>>

\* the length of the run of digits that ends the stem
RECURSIVE TrailingDigits(_)
TrailingDigits(stem) ==
    IF stem = <<>> \/ ~ IsDigit(stem[Len(stem)]) THEN 0
    ELSE 1 + TrailingDigits(SubSeq(stem, 1, Len(stem) - 1))

\* line 115: re.match(r"(.+)_v(\d+)$", stem), <<>> for None, else the groups
version_match_None(stem) == <<>>

version_match(stem) ==
    LET d == TrailingDigits(stem)
        n == Len(stem)
    IN  IF d >= 1 /\ n - d >= 3 /\ stem[n - d] = "v" /\ stem[n - d - 1] = "_"
        THEN << [base_stem |-> SubSeq(stem, 1, n - d - 2),
                 digits |-> SubSeq(stem, n - d + 1, n)] >>
        ELSE <<>>

\* lines 126-127: parent / f"{base_stem}_v{version}{suffix}"
new_path(path, base_stem, version) ==
    [parent |-> path.parent,
     stem |-> base_stem \o <<"_", "v">> \o IntToDigits(version),
     suffix |-> path.suffix]

\* lines 157-159: the output path asked for, the input's name with .pdf
\* when none is given
RequestedPath(input_path, output_path) ==
    IF output_path = <<>>
    THEN [parent |-> input_path.parent, stem |-> input_path.stem,
          suffix |-> ".pdf"]
    ELSE output_path[1]

\* the inputs: output paths asked for, and the number of files in the folder
MaxPdfFiles == 4
OutputPaths ==
    {[parent |-> "out", stem |-> st, suffix |-> ".pdf"] :
        st \in { <<"p">>, <<"p", "_", "v", "1">>, <<"p", "_", "v", "2">>,
                 <<"p", "_", "v", "9">>, <<"p", "_", "v", "0", "1">>,
                 <<"_", "v", "1">>, <<"p", "v", "1">>, <<"p", "_", "v">> }}
        \cup {[parent |-> "out", stem |-> <<"p", "_", "v", "1">>,
               suffix |-> ""]}

\* nothing was called yet, the folder holds no PDF
PdfInit ==
    /\ text = <<>>
    /\ fs = [p \in {InputPath} |-> [readable |-> TRUE, lines |-> <<>>]]
    /\ queue = <<>>
    /\ batch = [in_place |-> TRUE, matched |-> <<>>]
    /\ pc = "idle"
    /\ NoCall

\* text_to_pdf(input_path, output_path) is called: lines 147-159
PdfCall ==
    /\ pc \in {"idle", "pdf_done"}
    /\ Cardinality(pdf.files) < MaxPdfFiles
    /\ \E output_path \in {<<>>} \cup {<<o>> : o \in OutputPaths} :
          pdf' = [files |-> pdf.files, before |-> pdf.files,
                  requested |-> <<RequestedPath(InputPath, output_path)>>,
                  base_stem |-> <<>>, version |-> 0, output_path |-> <<>>]
    /\ pc' = "pdf_versioning"
    /\ UNCHANGED <<activity, metrics, session, evaluation>>
    /\ UNCHANGED fixVars
    /\ UNCHANGED wrapVars
    /\ UNCHANGED ioVars

\* _get_versioned_path up to its loop: lines 105-121
PdfVersioning ==
    /\ pc = "pdf_versioning"
    /\ LET base_path == pdf.requested[1]
           match == version_match(base_path.stem)
       IN  IF base_path \notin pdf.files
           THEN /\ pdf' = [pdf EXCEPT !.output_path = <<base_path>>]
                /\ pc' = "pdf_write"
           ELSE /\ pdf' = [pdf EXCEPT
                              !.base_stem = IF match # <<>>
                                            THEN match[1].base_stem
                                            ELSE base_path.stem,
                              !.version = IF match # <<>>
                                          THEN DigitsToInt(match[1].digits)
                                          ELSE 0]
                /\ pc' = "pdf_search"
    /\ UNCHANGED <<activity, metrics, session, evaluation>>
    /\ UNCHANGED fixVars
    /\ UNCHANGED wrapVars
    /\ UNCHANGED ioVars

\* one iteration of the loop of _get_versioned_path: lines 124-129
PdfSearch ==
    /\ pc = "pdf_search"
    /\ LET version == pdf.version + 1
           candidate == new_path(pdf.requested[1], pdf.base_stem, version)
       IN  IF candidate \notin pdf.files
           THEN /\ pdf' = [pdf EXCEPT !.version = version,
                                      !.output_path = <<candidate>>]
                /\ pc' = "pdf_write"
           ELSE /\ pdf' = [pdf EXCEPT !.version = version]
                /\ pc' = "pdf_search"
    /\ UNCHANGED <<activity, metrics, session, evaluation>>
    /\ UNCHANGED fixVars
    /\ UNCHANGED wrapVars
    /\ UNCHANGED ioVars

\* the PDF is written at output_path and the path returned: lines 187-220
PdfWrite ==
    /\ pc = "pdf_write"
    /\ pdf' = [pdf EXCEPT !.files = @ \cup {pdf.output_path[1]}]
    /\ pc' = "pdf_done"
    /\ UNCHANGED <<activity, metrics, session, evaluation>>
    /\ UNCHANGED fixVars
    /\ UNCHANGED wrapVars
    /\ UNCHANGED ioVars

PdfNext ==
    \/ PdfCall
    \/ PdfVersioning
    \/ PdfSearch
    \/ PdfWrite

\* a call that was made runs on to its return
PdfSpec ==
    /\ PdfInit
    /\ [][PdfNext]_vars
    /\ WF_vars(PdfVersioning)
    /\ WF_vars(PdfSearch)
    /\ WF_vars(PdfWrite)

(***************************************************************************)
(* Properties                                                              *)
(***************************************************************************)
Returned == pc # "scan"     \* the current call of fix_table_alignment returned
IsData(l) == _is_table_data_line(l)
IsBorder(l) == _is_table_border_line(l)
EntriesFor(entries, k) == {e \in 1..Len(entries) : entries[e].line = k}
\* the data rows of the table blocks: pairs <<block, line>>
BlockRows ==
    {br \in (1..Len(blocks)) \X (1..Len(text)) :
        /\ blocks[br[1]].first <= br[2]
        /\ br[2] <= blocks[br[1]].last
        /\ IsData(text[br[2]])}
NonSpace(l) == LET NotSpace(c) == c # " " IN SelectSeq(l, NotSpace)
RECURSIVE RStripSpaces(_)
RStripSpaces(l) ==
    IF l # <<>> /\ l[Len(l)] = " " THEN RStripSpaces(SubSeq(l, 1, Len(l) - 1))
    ELSE l
\* what stands before the j-th vertical bar of l (after the previous bar),
\* and what stands after the last one
CellBefore(l, j) ==
    LET p == _get_pipe_positions(l)
    IN  SubSeq(l, IF j = 1 THEN 1 ELSE p[j - 1] + 2, p[j])
AfterLastBar(l) ==
    LET p == _get_pipe_positions(l)
    IN  SubSeq(l, p[Len(p)] + 2, Len(l))

\* C1: when the first call of fix_table_alignment records no warnings, the
\* call on its fixed_text records no fixes and returns the text unchanged.
C1_Idempotent ==
    (Returned /\ call = 2 /\ first.warnings = <<>>)
        => (all_fixes = <<>> /\ result = text)

C1_Witness ==
    /\ pc = "fixed" /\ call = 2
    /\ first.warnings = <<>>
    /\ first.fixes # <<>>
    /\ first.fixed_text # first.text

\* C2: after fix_table_alignment every data row of every table block has its
\* vertical bars exactly at the block's final grid, or a warning is recorded
\* for that line number.
C2_AlignedOrWarned ==
    Returned =>
        \A br \in BlockRows :
            \/ _get_pipe_positions(result[br[2]]) = blocks[br[1]].col_positions
            \/ EntriesFor(all_warnings, br[2]) # {}

\* C3: a data row whose number of vertical bars differs from the size of its
\* block's grid is emitted unchanged, with no fix and exactly one warning,
\* the column count mismatch.
C3_ColumnCountGate ==
    Returned =>
        \A br \in BlockRows :
            Len(_get_pipe_positions(text[br[2]]))
                    # Len(blocks[br[1]].col_positions)
                => /\ result[br[2]] = text[br[2]]
                   /\ EntriesFor(all_fixes, br[2]) = {}
                   /\ Cardinality(EntriesFor(all_warnings, br[2])) = 1
                   /\ \A e \in EntriesFor(all_warnings, br[2]) :
                         /\ Len(all_warnings[e].warnings) = 1
                         /\ all_warnings[e].warnings[1].op = "column count mismatch"

C3_Witness ==
    /\ pc = "fixed" /\ call = 1
    /\ \E br \in BlockRows :
          /\ Len(_get_pipe_positions(text[br[2]]))
                 > Len(blocks[br[1]].col_positions)
          /\ Len(blocks[br[1]].col_positions) > 0
          /\ all_warnings # <<>>

\* C4: an aligned data row differs from the original only in the runs of
\* spaces that immediately precede its vertical bars: same bars, same cell
\* contents up to trailing spaces, same text after the last bar, and so the
\* same sequence of non-space characters.
C4_ContentPreserved ==
    Returned =>
        \A br \in BlockRows :
            LET old == text[br[2]]
                new == result[br[2]]
                n == Len(_get_pipe_positions(old))
            IN  /\ Len(_get_pipe_positions(new)) = n
                /\ \A j \in 1..n :
                      RStripSpaces(CellBefore(new, j))
                          = RStripSpaces(CellBefore(old, j))
                /\ AfterLastBar(new) = AfterLastBar(old)
                /\ NonSpace(new) = NonSpace(old)

C4_Witness ==
    /\ pc = "fixed" /\ call = 1
    /\ \E br \in BlockRows :
          /\ Len(result[br[2]]) < Len(text[br[2]])
          /\ "a" \in Range(text[br[2]])
          /\ \E e \in EntriesFor(all_fixes, br[2]) :
                Len(all_fixes[e].fixes) > 1

\* C5: a line that is neither a border line nor a data line is emitted
\* unchanged at the same index, and no fix or warning carries its number.
C5_NonTablePreserved ==
    Returned =>
        \A k \in 1..Len(text) :
            (~ IsBorder(text[k]) /\ ~ IsData(text[k]))
                => /\ k <= Len(result)
                   /\ result[k] = text[k]
                   /\ EntriesFor(all_fixes, k) = {}
                   /\ EntriesFor(all_warnings, k) = {}

C5_Witness ==
    /\ pc = "fixed" /\ call = 1
    /\ all_fixes # <<>>
    /\ \E k \in 1..Len(text) :
          /\ ~ IsBorder(text[k]) /\ ~ IsData(text[k])
          /\ text[k] # Strip(text[k])
          /\ k > 1

\* C6: every border or data line of wrap_long_lines' input is emitted exactly
\* once, unchanged, in input order, whatever its length, and no WrapChange
\* carries its number.
C6_WrapKeepsTables ==
    pc = "wrapped" =>
        /\ \A m \in 1..(Len(origin) - 1) : origin[m] <= origin[m + 1]
        /\ \A k \in 1..Len(result) :
              (IsBorder(result[k]) \/ IsData(result[k]))
                  => /\ Cardinality({m \in 1..Len(wresult) : origin[m] = k}) = 1
                     /\ \A m \in 1..Len(wresult) :
                           origin[m] = k => wresult[m] = result[k]
                     /\ EntriesFor(changes, k) = {}

C6_Witness ==
    /\ pc = "wrapped"
    /\ changes # <<>>
    /\ \E k \in 1..Len(result) :
          /\ IsData(result[k])
          /\ Len(result[k]) > max_width
          /\ " " \in Range(Strip(result[k]))
          /\ \E c \in 1..Len(changes) : changes[c].line < k

\* C7: fix_table_alignment returns as many lines as it was given, and
\* wrap_long_lines returns at least as many lines as it was given.
C7_LineCounts ==
    /\ Returned => Len(result) = Len(text)
    /\ pc = "wrapped" => Len(wresult) >= Len(result)

C7_Witness ==
    /\ pc = "wrapped"
    /\ all_fixes # <<>>
    /\ Len(blocks) > 0
    /\ Len(wresult) > Len(result)

\* C8 (as stated): the extractor returns the offsets of exactly the corner
\* glyphs, the four tee glyphs (top, bottom, left, right) and the cross.
C8_Original ==
    Returned =>
        \A b \in 1..Len(blocks) : \A e \in 1..Len(blocks[b].borders) :
            blocks[b].borders[e].positions =
                OffsetsOf(text[blocks[b].borders[e].line],
                          BOX_CORNERS_TOP \cup BOX_CORNERS_BOTTOM
                              \cup BOX_TEES_TOP \cup BOX_TEES_BOTTOM
                              \cup BOX_TEES_LEFT \cup BOX_TEES_RIGHT
                              \cup BOX_CROSS)

\* C8 (amended): the extractor returns, in left-to-right order, the offsets
\* of exactly the corner glyphs, the top and bottom tee glyphs and the cross;
\* the left and right tee glyphs are not column separators.
C8_Amended ==
    Returned =>
        \A b \in 1..Len(blocks) : \A e \in 1..Len(blocks[b].borders) :
            LET line == text[blocks[b].borders[e].line]
                positions == blocks[b].borders[e].positions
            IN  /\ \A m \in 1..(Len(positions) - 1) :
                      positions[m] < positions[m + 1]
                /\ \A p \in 0..(Len(line) - 1) :
                      p \in Range(positions)
                          <=> line[p + 1] \in
                                  (BOX_CORNERS_TOP \cup BOX_CORNERS_BOTTOM
                                      \cup BOX_TEES_TOP \cup BOX_TEES_BOTTOM
                                      \cup BOX_CROSS)

C8_Witness ==
    /\ pc = "fixed" /\ call = 1
    /\ \E b \in 1..Len(blocks) : \E e \in 1..Len(blocks[b].borders) :
          LET line == text[blocks[b].borders[e].line]
          IN  /\ "tL" \in Range(line)
              /\ "x" \in Range(line)
              /\ "tB" \in Range(line)
              /\ Len(blocks[b].borders[e].positions) = 3

\* C9: the grid handed to _fix_data_row for every data row of a block, rows
\* before the supplying border included, is the offset list of one of the
\* block's border lines, and no border line of the block has more offsets.
C9_WidestGrid ==
    Returned =>
        /\ \A b \in 1..Len(blocks) :
              /\ \E e \in 1..Len(blocks[b].borders) :
                    blocks[b].borders[e].positions = blocks[b].col_positions
              /\ \A e \in 1..Len(blocks[b].borders) :
                    Len(blocks[b].borders[e].positions)
                        <= Len(blocks[b].col_positions)
        /\ \A br \in BlockRows :
              Cardinality(EntriesFor(aligned, br[2])) = 1
        /\ \A br \in BlockRows : \A a \in EntriesFor(aligned, br[2]) :
              aligned[a].expected = blocks[br[1]].col_positions

C9_Witness ==
    /\ pc = "fixed" /\ call = 1
    /\ \E br \in BlockRows :
          LET b == blocks[br[1]]
          IN  /\ Len(b.borders) = 2
              /\ Len(b.borders[1].positions) < Len(b.borders[2].positions)
              /\ br[2] < b.borders[2].line
              /\ EntriesFor(all_fixes, br[2]) # {}

\* C10: when border lines of one block yield equally many offsets, the grid
\* of the first of them is the block's grid.
C10_FirstSeenKept ==
    Returned =>
        \A b \in 1..Len(blocks) :
            \A e \in 1..Len(blocks[b].borders) :
                ( /\ \A f \in 1..Len(blocks[b].borders) :
                        Len(blocks[b].borders[f].positions)
                            <= Len(blocks[b].borders[e].positions)
                  /\ \A f \in 1..(e - 1) :
                        Len(blocks[b].borders[f].positions)
                            < Len(blocks[b].borders[e].positions) )
                    => blocks[b].col_positions = blocks[b].borders[e].positions

\* the blocks a line lies in, and whether a line ends a contiguous run of
\* border and data lines that starts with a border line
InBlocks(k) ==
    {b \in 1..Len(blocks) : blocks[b].first <= k /\ k <= blocks[b].last}
InTableRun(k) ==
    \E f \in 1..(k - 1) :
        /\ IsBorder(text[f])
        /\ \A m \in f..k : IsBorder(text[m]) \/ IsData(text[m])

\* C11 (as stated): every data line, one not preceded by any border line
\* included, lies in exactly one table block and is handed to _fix_data_row
\* exactly once.
C11_Original ==
    Returned =>
        \A k \in 1..Len(text) :
            IsData(text[k])
                => /\ Cardinality(InBlocks(k)) = 1
                   /\ Cardinality(EntriesFor(aligned, k)) = 1

\* C11 (amended): a data line that continues a contiguous run of border and
\* data lines started by a border line lies in exactly one table block and is
\* handed to _fix_data_row exactly once, with that block's grid; any other
\* data line lies in no block, is never handed to _fix_data_row, and is
\* emitted unchanged with no fix and no warning.
C11_Amended ==
    Returned =>
        \A k \in 1..Len(text) :
            IsData(text[k])
                => IF InTableRun(k)
                   THEN /\ Cardinality(InBlocks(k)) = 1
                        /\ Cardinality(EntriesFor(aligned, k)) = 1
                        /\ \A b \in InBlocks(k) :
                              \A a \in EntriesFor(aligned, k) :
                                 aligned[a].expected = blocks[b].col_positions
                   ELSE /\ InBlocks(k) = {}
                        /\ EntriesFor(aligned, k) = {}
                        /\ result[k] = text[k]
                        /\ EntriesFor(all_fixes, k) = {}
                        /\ EntriesFor(all_warnings, k) = {}

C11_Witness ==
    /\ pc = "fixed" /\ call = 1
    /\ \E k \in 1..Len(text) : \E m \in 1..Len(text) :
          /\ IsData(text[k]) /\ ~ InTableRun(k)
          /\ IsData(text[m]) /\ InTableRun(m)
          /\ k < m
          /\ EntriesFor(all_fixes, m) # {}

\* C12 (as stated): for the four-line table with borders at offsets 0, 3, 8
\* and the rows "| A | BB |" and "|X|YY|", the second row becomes
\* "|X |YY  |", the fixes list holds one entry, for line 3, and the warnings
\* list is empty.
C12_Original ==
    (pc = "fixed" /\ call = 1 /\ text = DriftedTable)
        => /\ result[3] = <<"v", "X", " ", "v", "Y", "Y", " ", " ", "v">>
           /\ Len(all_fixes) = 1
           /\ all_fixes[1].line = 3
           /\ all_warnings = <<>>

\* C12 (amended): for that table the row "|X|YY|" becomes "|X |YY  |" and
\* the warnings list is empty, but the fixes list holds two entries: the row
\* "| A | BB |" has its bars at offsets 0, 4, 9, so it is rewritten to
\* "| A| BB |" (one space removed before its second bar) and gets the entry
\* for line 2; the entry for line 3 records the two insertions.
C12_Amended ==
    (pc = "fixed" /\ call = 1 /\ text = DriftedTable)
        => /\ result[1] = text[1]
           /\ result[2] = <<"v", " ", "A", "v", " ", "B", "B", " ", "v">>
           /\ result[3] = <<"v", "X", " ", "v", "Y", "Y", " ", " ", "v">>
           /\ result[4] = text[4]
           /\ Len(all_fixes) = 2
           /\ all_fixes[1] = [line |-> 2,
                              fixes |-> << [col |-> 2, op |-> "removed",
                                            n |-> 1] >>]
           /\ all_fixes[2] = [line |-> 3,
                              fixes |-> << [col |-> 2, op |-> "added", n |-> 1],
                                           [col |-> 3, op |-> "added", n |-> 2] >>]
           /\ all_warnings = <<>>

C12_Witness ==
    /\ pc = "fixed" /\ call = 1
    /\ text = DriftedTable
    /\ Len(blocks) = 1
    /\ blocks[1].col_positions = <<0, 3, 8>>
    /\ result # text

\* the loop of lines 92-124 at column c of the row of aligned[a]: the offset
\* of the bar in the line as rewritten so far, how far left it must move,
\* and whether no space stands immediately before it
ActualPos(a, c) ==
    _get_pipe_positions(text[aligned[a].line])[c]
        + aligned[a].steps[c].cumulative_shift
MoveLeft(a, c) == ActualPos(a, c) - aligned[a].expected[c]
NoSpaceBefore(a, c) ==
    \/ ActualPos(a, c) = 0
    \/ aligned[a].steps[c].result_line[ActualPos(a, c)] # " "
TooLong(warnings) ==
    {w \in 1..Len(warnings) : warnings[w].op = "too long"}

\* C13: when a bar must move left by d > 0 and no space stands immediately
\* before it, _fix_data_row removes nothing for that column, leaves the
\* cumulative shift and the fixes as they were, and appends one warning
\* reporting a shortfall of exactly d characters; the row's warnings are
\* what fix_table_alignment records for the line.
C13_Overflow ==
    Returned =>
        \A a \in 1..Len(aligned) :
            LET steps == aligned[a].steps
            IN  /\ \A c \in 1..(Len(steps) - 1) :
                      (MoveLeft(a, c) > 0 /\ NoSpaceBefore(a, c))
                          => /\ steps[c + 1].result_line = steps[c].result_line
                             /\ steps[c + 1].cumulative_shift
                                    = steps[c].cumulative_shift
                             /\ steps[c + 1].fixes = steps[c].fixes
                             /\ steps[c + 1].warnings =
                                    Append(steps[c].warnings,
                                           [col |-> c, op |-> "too long",
                                            n |-> MoveLeft(a, c)])
                /\ (steps # <<>> /\ steps[Len(steps)].warnings # <<>>)
                      => \E w \in EntriesFor(all_warnings, aligned[a].line) :
                            all_warnings[w].warnings
                                = steps[Len(steps)].warnings

C13_Witness ==
    /\ pc = "fixed" /\ call = 1
    /\ text = TooLongTable
    /\ \E a \in 1..Len(aligned) :
          /\ Len(aligned[a].steps) = 4
          /\ MoveLeft(a, 2) = 20
          /\ NoSpaceBefore(a, 2)
          /\ aligned[a].steps[3].warnings
                 = << [col |-> 2, op |-> "too long", n |-> 20] >>
    /\ result = text
    /\ all_fixes = <<>>
    /\ Len(all_warnings) = 1

\* C14: in a data row with a content-too-long warning, every column whose
\* bar must move right still gets its spaces inserted, and every column
\* whose bar must move left and has a space before it still gets spaces
\* removed, each recorded as a fix; the line so corrected is the line
\* fix_table_alignment emits, with those fixes recorded for it.
C14_PartialCorrection ==
    Returned =>
        \A a \in 1..Len(aligned) :
            LET steps == aligned[a].steps
                n == Len(steps)
            IN  (n > 0 /\ TooLong(steps[n].warnings) # {})
                    => /\ \A c \in 1..(n - 1) :
                          LET old == steps[c].result_line
                              new == steps[c + 1].result_line
                              p == ActualPos(a, c)
                              d == MoveLeft(a, c)
                              r == Len(old) - Len(new)
                          IN  /\ d < 0
                                  => /\ new = SubSeq(old, 1, p) \o Spaces(-d)
                                                \o SubSeq(old, p + 1, Len(old))
                                     /\ steps[c + 1].fixes =
                                            Append(steps[c].fixes,
                                                   [col |-> c, op |-> "added",
                                                    n |-> -d])
                              /\ (d > 0 /\ ~ NoSpaceBefore(a, c))
                                  => /\ r >= 1 /\ r <= d
                                     /\ r = d \/ p = r \/ old[p - r] # " "
                                     /\ \A q \in (p - r + 1)..p : old[q] = " "
                                     /\ new = SubSeq(old, 1, p - r)
                                                \o SubSeq(old, p + 1, Len(old))
                                     /\ steps[c + 1].fixes =
                                            Append(steps[c].fixes,
                                                   [col |-> c, op |-> "removed",
                                                    n |-> r])
                       /\ result[aligned[a].line] = steps[n].result_line
                       /\ IF steps[n].fixes = <<>>
                          THEN EntriesFor(all_fixes, aligned[a].line) = {}
                          ELSE \E f \in EntriesFor(all_fixes, aligned[a].line) :
                                  all_fixes[f].fixes = steps[n].fixes

C14_Witness ==
    /\ pc = "fixed" /\ call = 1
    /\ \E a \in 1..Len(aligned) :
          LET steps == aligned[a].steps
              n == Len(steps)
          IN  /\ n > 0
              /\ \E w \in TooLong(steps[n].warnings) :
                    \E f \in 1..Len(steps[n].fixes) :
                        steps[n].warnings[w].col < steps[n].fixes[f].col
              /\ result[aligned[a].line] # text[aligned[a].line]
              /\ EntriesFor(all_fixes, aligned[a].line) # {}

\* the lines wrap_long_lines emitted for its input line k, and the words
\* (maximal runs of non-whitespace) of a line and of a list of lines
OutputOf(k) ==
    LET idx == {m \in 1..Len(wresult) : origin[m] = k}
        lo == CHOOSE m \in idx : \A q \in idx : m <= q
    IN  IF idx = {} THEN <<>>
        ELSE SubSeq(wresult, lo, lo + Cardinality(idx) - 1)
WordsOf(l) ==
    LET NotWs(chunk) == ~ IsWs(chunk) IN SelectSeq(SplitChunks(l), NotWs)
RECURSIVE AllWords(_)
AllWords(ls) ==
    IF ls = <<>> THEN <<>> ELSE WordsOf(Head(ls)) \o AllWords(Tail(ls))
NoTableLines ==
    \A k \in 1..Len(result) : ~ IsBorder(result[k]) /\ ~ IsData(result[k])

\* C15 (as stated): with no table lines and max_width omitted the width is
\* 120, and a 150-character bulleted line is emitted unchanged with no
\* WrapChange recorded.
C15_Original ==
    (pc = "wrapped" /\ width_arg = <<>> /\ NoTableLines)
        => /\ max_width = 120
           /\ \A k \in 1..Len(result) :
                 result[k] \in BulletLines
                     => /\ OutputOf(k) = <<result[k]>>
                        /\ EntriesFor(changes, k) = {}

\* C15 (amended): with no table lines and max_width omitted the width is
\* 120, and a 150-character bulleted line, being longer than 120, is
\* wrapped: it is replaced by at least 2 lines, none longer than 120, the
\* first starting with "- " and the later ones with two spaces, with the
\* same words in the same order, and exactly one WrapChange is recorded for
\* it, giving its original length 150 and the number of lines it became.
C15_Amended ==
    (pc = "wrapped" /\ width_arg = <<>> /\ NoTableLines)
        => /\ max_width = 120
           /\ \A k \in 1..Len(result) :
                 result[k] \in BulletLines
                     => LET out == OutputOf(k)
                        IN  /\ Len(out) >= 2
                            /\ \A j \in 1..Len(out) : Len(out[j]) <= 120
                            /\ SubSeq(out[1], 1, 2) = <<"-", " ">>
                            /\ \A j \in 2..Len(out) :
                                  SubSeq(out[j], 1, 2) = <<" ", " ">>
                            /\ AllWords(out) = WordsOf(result[k])
                            /\ Cardinality(EntriesFor(changes, k)) = 1
                            /\ \A c \in EntriesFor(changes, k) :
                                  /\ changes[c].original_length = 150
                                  /\ changes[c].wrapped_to = Len(out)

C15_Witness ==
    /\ pc = "wrapped"
    /\ width_arg = <<>>
    /\ max_width = 120
    /\ Len(result) = 1
    /\ result[1] \in BulletLines
    /\ Len(result[1]) = 150
    /\ Len(wresult) = 2
    /\ Len(changes) = 1

\* C16: with max_width = 80 passed, a 150-character bulleted line whose
\* words are at most 78 characters long is replaced by at least 2 lines, the
\* first starting with "- ", every later one with two spaces, none longer
\* than 80 characters, and the words are those of the original in order.
C16_BulletWrap ==
    (pc = "wrapped" /\ width_arg = <<80>>)
        => \A k \in 1..Len(result) :
              ( /\ result[k] \in BulletLines
                /\ \A w \in 2..Len(WordsOf(result[k])) :
                      Len(WordsOf(result[k])[w]) <= 78 )
                  => LET out == OutputOf(k)
                     IN  /\ Len(out) >= 2
                         /\ SubSeq(out[1], 1, 2) = <<"-", " ">>
                         /\ \A j \in 2..Len(out) :
                               /\ SubSeq(out[j], 1, 2) = <<" ", " ">>
                               /\ Len(out[j]) > 2 /\ out[j][3] # " "
                         /\ \A j \in 1..Len(out) : Len(out[j]) <= 80
                         /\ AllWords(out) = WordsOf(result[k])

C16_Witness ==
    /\ pc = "wrapped"
    /\ width_arg = <<80>>
    /\ Len(result) = 1
    /\ result[1] \in BulletLines
    /\ Len(result[1]) = 150
    /\ Len(wresult) = 3
    /\ Len(wresult[1]) = 41
    /\ Len(changes) = 1

\* the files before the call of fix_text_file or format_text_file on
\* InputPath: the input file alone, holding the text
FilesBefore == [p \in {InputPath} |-> [readable |-> TRUE, lines |-> text]]

\* C17: when no fix and no wrap was computed, warnings or not, fix_text_file
\* and format_text_file leave every file as it was and create none, and the
\* returned output_path is absent or null; when there is no warning either,
\* the status is "no_changes".
C17_NoWrite ==
    (pc = "returned" /\ all_fixes = <<>> /\ changes = <<>>)
        => /\ fs = FilesBefore
           /\ ret.has_output_path => ret.output_path = <<>>
           /\ ~ ret.has_output_path => all_warnings = <<>>
           /\ all_warnings = <<>> => ret.status = "no_changes"

C17_Witness ==
    /\ pc = "returned"
    /\ fargs.fn = "format_text_file"
    /\ fargs.output_path # <<>>
    /\ ~ fargs.in_place
    /\ all_fixes = <<>> /\ changes = <<>>
    /\ all_warnings # <<>>
    /\ ret.has_output_path
    /\ Len(text) > 1

\* C18: the status fix_text_file returns is "no_changes" iff there is no fix
\* and no warning, "fixed" iff there are fixes and no warning, "partial" iff
\* there are both, "warnings_only" iff there are warnings and no fix, and
\* never anything else.
C18_Status ==
    (pc = "returned" /\ fargs.fn = "fix_text_file")
        => /\ ret.status \in {"no_changes", "fixed", "partial", "warnings_only"}
           /\ ret.status = "no_changes"
                  <=> (all_fixes = <<>> /\ all_warnings = <<>>)
           /\ ret.status = "fixed"
                  <=> (all_fixes # <<>> /\ all_warnings = <<>>)
           /\ ret.status = "partial"
                  <=> (all_fixes # <<>> /\ all_warnings # <<>>)
           /\ ret.status = "warnings_only"
                  <=> (all_fixes = <<>> /\ all_warnings # <<>>)
           /\ ret.fixes = all_fixes
           /\ ret.warnings = all_warnings

C18_Witness ==
    /\ pc = "returned"
    /\ fargs.fn = "fix_text_file"
    /\ ret.status = "partial"
    /\ Len(all_fixes) > 0 /\ Len(all_warnings) > 0

\* C19: fix_all_text_files never raises because a file cannot be read; its
\* results list holds, in order, one entry per matched file processed so
\* far, and on return one entry per matched file; an entry has status
\* "error" exactly when its file could not be read, and every other file
\* gets the entry fix_text_file returned for it.
C19_BatchIsolation ==
    /\ pc # "raised"
    /\ pc \in {"batch", "batch_done"}
          => /\ Len(results) + Len(queue) = Len(batch.matched)
             /\ \A k \in 1..Len(results) :
                   /\ results[k].input_path = batch.matched[k]
                   /\ results[k].status = "error"
                          <=> ~ fs[batch.matched[k]].readable
                   /\ results[k].status \in
                          {"error", "no_changes", "fixed", "partial",
                           "warnings_only"}
    /\ pc = "batch_done" => Len(results) = Len(batch.matched)

C19_Witness ==
    /\ pc = "batch_done"
    /\ Len(batch.matched) = 3
    /\ Len(results) = 3
    /\ results[1].status = "error"
    /\ results[2].status = "partial"
    /\ results[3].status = "error"
    /\ ~ batch.in_place
    /\ Cardinality(DOMAIN fs) = 4

\* C20: with no explicit output path, whenever fix_text_file
\* (format_text_file) has something to write, in_place = false makes it write
\* the result to <stem>_fixed<suffix> (<stem>_formatted<suffix>) in the input
\* file's directory, leaving the input file as it was, and in_place = true
\* makes it write the result to the input path itself; no other file is
\* touched, and the returned output_path names the file written.
C20_OutputLocation ==
    ( /\ pc = "returned"
      /\ fargs.output_path = <<>>
      /\ all_fixes # <<>> \/ changes # <<>> )
        => LET fixing == fargs.fn = "fix_text_file"
               written == IF fixing THEN result ELSE wresult
               suffixed == [parent |-> InputPath.parent,
                            stem |-> InputPath.stem
                                \o << IF fixing THEN "_fixed"
                                      ELSE "_formatted" >>,
                            suffix |-> InputPath.suffix]
           IN  IF fargs.in_place
               THEN /\ DOMAIN fs = {InputPath}
                    /\ fs[InputPath].lines = written
                    /\ ret.output_path = <<InputPath>>
               ELSE /\ DOMAIN fs = {InputPath, suffixed}
                    /\ fs[suffixed].lines = written
                    /\ fs[InputPath].lines = text
                    /\ ret.output_path = <<suffixed>>

C20_Witness ==
    /\ pc = "returned"
    /\ fargs.fn = "format_text_file"
    /\ fargs.output_path = <<>>
    /\ ~ fargs.in_place
    /\ all_fixes # <<>> /\ changes # <<>>
    /\ Cardinality(DOMAIN fs) = 2
    /\ fs[InputPath].lines = text
    /\ wresult # text

\* C21: for every line wrap_long_lines splits, exactly one WrapChange is
\* recorded, with the line's number, its length, and a line count equal to
\* the number of lines emitted for it; the changes are in increasing line
\* order.
C21_WrapChanges ==
    pc = "wrapped" =>
        /\ \A c \in 1..(Len(changes) - 1) :
              changes[c].line < changes[c + 1].line
        /\ \A k \in 1..Len(result) :
              Len(OutputOf(k)) > 1
                  => /\ Cardinality(EntriesFor(changes, k)) = 1
                     /\ \A c \in EntriesFor(changes, k) :
                           /\ changes[c].original_length = Len(result[k])
                           /\ changes[c].wrapped_to = Len(OutputOf(k))

\* the indent of a line and what follows it, as the claim reads a list
\* marker: a bullet glyph or digits and ".", followed by whitespace
IndentOf(l) == RunLength(l, 1, Whitespace)
HasListMarker(l) ==
    LET content == SubSeq(l, IndentOf(l) + 1, Len(l))
        d == RunLength(content, 1, Digits)
    IN  \/ /\ Len(content) >= 2
           /\ content[1] \in {"-", "*", "bullet", "tL", "cBL"}
           /\ content[2] \in Whitespace
        \/ /\ d > 0 /\ Len(content) >= d + 2
           /\ content[d + 1] = "."
           /\ content[d + 2] \in Whitespace

\* C22: a split line that does not start with a list marker followed by
\* whitespace is wrapped with an empty prefix: every continuation line
\* starts with the line's own indent and then a word, with no further
\* space.
C22_MarkerNeedsSpace ==
    pc = "wrapped" =>
        \A k \in 1..Len(result) :
            (Len(OutputOf(k)) > 1 /\ ~ HasListMarker(result[k]))
                => \A j \in 2..Len(OutputOf(k)) :
                      LET out == OutputOf(k)[j]
                          n == IndentOf(result[k])
                      IN  /\ SubSeq(out, 1, n) = SubSeq(result[k], 1, n)
                          /\ Len(out) > n
                          /\ out[n + 1] \notin Whitespace

\* the lengths of the given lines of wrap_long_lines' input, with their maximum
LengthsAt(S) == {Len(result[k]) : k \in S}
Widest(S) == CHOOSE w \in LengthsAt(S) : \A v \in LengthsAt(S) : v <= w
BlockLines == {k \in 1..Len(result) : InBlocks(k) # {}}
ClassifiedLines ==
    {k \in 1..Len(result) : IsBorder(result[k]) \/ IsData(result[k])}

\* C23 (as stated): with max_width omitted the width is the length of the
\* widest line of any table block of the input, or 120 when the input has no
\* table block; a given max_width is the width.
C23_Original ==
    pc \in {"wrap", "wrapped"} =>
        IF width_arg # <<>> THEN max_width = width_arg[1]
        ELSE IF BlockLines = {} THEN max_width = 120
        ELSE max_width = Widest(BlockLines)

\* C23 (amended): with max_width omitted the width is the length of the
\* widest line classified as a border line or a data line, whether or not a
\* border line opens a table block around it, or 120 when the input has no
\* such line; a given max_width is the width.
C23_Amended ==
    pc \in {"wrap", "wrapped"} =>
        IF width_arg # <<>> THEN max_width = width_arg[1]
        ELSE IF ClassifiedLines = {} THEN max_width = 120
        ELSE max_width = Widest(ClassifiedLines)

C23_Witness ==
    /\ pc = "wrapped"
    /\ width_arg = <<>>
    /\ BlockLines # {}
    /\ ClassifiedLines # BlockLines
    /\ max_width = Widest(ClassifiedLines)
    /\ max_width > Widest(BlockLines)
    /\ \E k \in 1..Len(result) : Len(result[k]) > max_width

\* C27: at the start of column c and after it, the observed offset of the
\* c-th bar plus the cumulative shift is the offset of the c-th bar in the
\* working line; the step for column c leaves the bars before it where they
\* were; after an insertion the c-th bar is at its expected offset.
C27_ShiftInvariant ==
    Returned =>
        \A a \in 1..Len(aligned) :
            LET steps == aligned[a].steps
                observed == _get_pipe_positions(text[aligned[a].line])
            IN  \A c \in 1..(Len(steps) - 1) :
                    LET old == _get_pipe_positions(steps[c].result_line)
                        new == _get_pipe_positions(steps[c + 1].result_line)
                    IN  /\ Len(old) = Len(observed)
                        /\ Len(new) = Len(observed)
                        /\ old[c] = observed[c] + steps[c].cumulative_shift
                        /\ new[c] = observed[c] + steps[c + 1].cumulative_shift
                        /\ \A b \in 1..(c - 1) : new[b] = old[b]
                        /\ aligned[a].expected[c] > old[c]
                              => new[c] = aligned[a].expected[c]

C27_Witness ==
    /\ pc = "fixed" /\ call = 1
    /\ \E a \in 1..Len(aligned) :
          LET steps == aligned[a].steps
          IN  /\ Len(steps) >= 4
              /\ steps[2].cumulative_shift > 0
              /\ steps[3].cumulative_shift < steps[2].cumulative_shift
              /\ steps[3].result_line # steps[2].result_line

\* C28: a content-too-long warning is recorded for column c only if the
\* content between the bars c-1 and c, trailing spaces aside, is wider than
\* the space the grid leaves between its offsets c-1 and c.
C28_OnlyContentBound ==
    Returned =>
        \A a \in 1..Len(aligned) :
            LET steps == aligned[a].steps
                expected == aligned[a].expected
                line == text[aligned[a].line]
            IN  \A c \in 1..(Len(steps) - 1) :
                    Len(steps[c + 1].warnings) > Len(steps[c].warnings)
                        => Len(RStripSpaces(CellBefore(line, c)))
                               > IF c = 1 THEN expected[1]
                                 ELSE expected[c] - expected[c - 1] - 1

\* the scan of fix_table_alignment so far: the classes exclude one another;
\* the lines before the scan position are emitted, one output line each in
\* input order, a line that is not a data line as it was and a data line
\* with its non-space characters; the blocks follow one another, each opens
\* at a border line that no block precedes immediately, holds only border
\* and data lines, and ends at the end of the document or before a line of
\* neither class; every border line passed is in a block.
ScanSoFar ==
    /\ \A k \in 1..Len(text) : ~ (IsBorder(text[k]) /\ IsData(text[k]))
    /\ i <= Len(text) + 1
    /\ Len(result) = i - 1
    /\ \A k \in 1..Len(result) :
          IF IsData(text[k])
          THEN NonSpace(result[k]) = NonSpace(text[k])
          ELSE result[k] = text[k]
    /\ \A b \in 1..Len(blocks) :
          LET blk == blocks[b]
          IN  /\ blk.first <= blk.last /\ blk.last < i
              /\ IsBorder(text[blk.first])
              /\ \A k \in blk.first..blk.last :
                    IsBorder(text[k]) \/ IsData(text[k])
              /\ \/ blk.last = Len(text)
                 \/ ~ (IsBorder(text[blk.last + 1])
                          \/ IsData(text[blk.last + 1]))
              /\ b > 1 => blocks[b - 1].last + 1 < blk.first
    /\ \A k \in 1..(i - 1) : IsBorder(text[k]) => InBlocks(k) # {}
    /\ \A k \in 1..(i - 1) :
          InBlocks(k) # {} => (IsBorder(text[k]) \/ InTableRun(k))
    /\ pc = "fixed" => i = Len(text) + 1

\* C29: the scan of fix_table_alignment keeps ScanSoFar at every step and,
\* run on any finite document, returns.
C29_BlockScan == [] ScanSoFar /\ <> (pc = "fixed")

C29_Witness ==
    /\ pc = "fixed"
    /\ Len(text) = 3
    /\ Len(blocks) = 2
    /\ ~ IsBorder(text[2]) /\ ~ IsData(text[2])
    /\ result = text

C25_Cramped ==
    pc \in {"activity_done", "session"} /\ metrics.name # "none" =>
        LET area == activity.area_length * activity.area_width
            players == IF activity.num_players >= 1
                       THEN activity.num_players ELSE 1
        IN  area < 15 * players
                => /\ "very_cramped" \in Range(metrics.recommendations)
                   /\ "very_spacious" \notin Range(metrics.recommendations)
                   /\ metrics.category = "very_tight"

C25_Witness ==
    /\ pc = "activity_done"
    /\ activity.num_players = 8
    /\ activity.area_length * activity.area_width = 100
    /\ metrics.recommendations = <<"very_cramped", "long_duration_tight">>

\* C30: the overall recommendations hold "All activities are high
\* intensity" exactly when the session has an activity and every line of
\* the intensity profile, where an unstated intensity reads medium, says
\* high.
C30_AllHigh ==
    pc = "session_done" =>
        ( "all_high_intensity" \in Range(evaluation.overall_recommendations)
            <=> /\ Len(session.activities) >= 1
                /\ \A k \in 1..Len(evaluation.intensity_profile) :
                      evaluation.intensity_profile[k].intensity = "high" )

\* the place of the "_v" of a stem of the form <base>_v<digits>, 0 if the
\* stem has no version number
VersionAt(stem) ==
    LET places == {k \in 2..(Len(stem) - 2) :
                      /\ stem[k] = "_"
                      /\ stem[k + 1] = "v"
                      /\ \A j \in (k + 2)..Len(stem) : IsDigit(stem[j])}
    IN  IF places = {} THEN 0 ELSE CHOOSE k \in places : TRUE

\* the version number of a stem, 0 if it has none
CurrentVersion(stem) ==
    IF VersionAt(stem) = 0 THEN 0
    ELSE DigitsToInt(SubSeq(stem, VersionAt(stem) + 2, Len(stem)))

\* the path <base>_v<n><suffix> of a path asked for
Versioned(path, n) ==
    [parent |-> path.parent,
     stem |-> (IF VersionAt(path.stem) = 0 THEN path.stem
               ELSE SubSeq(path.stem, 1, VersionAt(path.stem) - 1))
              \o <<"_", "v">> \o IntToDigits(n),
     suffix |-> path.suffix]

\* the path text_to_pdf wrote is one that did not exist, and is the one
\* asked for or the first free version after the current one
WrittenPath ==
    pc \in {"pdf_write", "pdf_done"} =>
        LET requested == pdf.requested[1]
            written == pdf.output_path[1]
            current == CurrentVersion(requested.stem)
        IN  /\ written \notin pdf.before
            /\ pc = "pdf_done" => pdf.files = pdf.before \cup {written}
            /\ requested \notin pdf.before => written = requested
            /\ requested \in pdf.before =>
                  \E n \in (current + 1)..(current + MaxPdfFiles + 1) :
                      /\ written = Versioned(requested, n)
                      /\ \A m \in (current + 1)..(n - 1) :
                            Versioned(requested, m) \in pdf.before

\* C26: text_to_pdf writes no path that existed: it writes the path asked
\* for when that is free, and otherwise <base>_v<n><suffix> with the
\* smallest n above the current version number of the name asked for (0
\* without one) that is free; and the search for it ends, every call
\* reaching its return.
C26_NoOverwrite ==
    /\ [] WrittenPath
    /\ (pc = "pdf_versioning") ~> (pc = "pdf_done")

C26_Witness ==
    /\ pc = "pdf_done"
    /\ pdf.requested[1].stem = <<"p", "_", "v", "9">>
    /\ pdf.requested[1] \in pdf.before
    /\ Versioned(pdf.requested[1], 10) \in pdf.before
    /\ pdf.output_path[1].stem = <<"p", "_", "v", "1", "1">>

====
